---- MODULE Spec2Model ----
(***************************************************************************)
(* The markdown table-extraction pipeline of the TikTok metrics scraper:   *)
(* parseDeprecationStatus, parseXTable, extractMetricFromRow, the line     *)
(* walker processMarkdownContent and groupMetrics; the task pool of the    *)
(* documentation downloader, processDocsWithConcurrency, and its           *)
(* sequential download, downloadDocs; the search and fetch methods of      *)
(* VectorStoreService, its initialization and the execute handlers of the  *)
(* tools that call it.                                                     *)
(*                                                                         *)
(* A JavaScript string is a sequence of one-character strings, so that     *)
(* split, trim, includes, startsWith and replace are computed character by *)
(* character as the code computes them.  Array indices are 0-based as in   *)
(* the source; At/Truthy translate them.                                   *)
(***************************************************************************)
EXTENDS Integers, Sequences, FiniteSets, TLC

\* ------------------------------------------------------------------------
\* String primitives (ECMAScript semantics of the methods the code calls)
\* ------------------------------------------------------------------------

\* The whitespace characters of the modelled alphabet (String.prototype.trim)
IsWs(c) == c = " " \/ c = "\n"

RECURSIVE TrimStart(_)
TrimStart(s) ==
  IF s = <<>> THEN <<>>
  ELSE IF IsWs(Head(s)) THEN TrimStart(Tail(s)) ELSE s

RECURSIVE TrimEnd(_)
TrimEnd(s) ==
  IF s = <<>> THEN <<>>
  ELSE IF IsWs(s[Len(s)]) THEN TrimEnd(SubSeq(s, 1, Len(s) - 1)) ELSE s

\* trim = (str) => str.trim()
Trim(s) == TrimEnd(TrimStart(s))

\* String.prototype.startsWith
StartsWith(s, p) == Len(s) >= Len(p) /\ SubSeq(s, 1, Len(p)) = p

\* String.prototype.includes
Includes(s, p) == \E k \in 0..(Len(s) - Len(p)) : SubSeq(s, k + 1, k + Len(p)) = p

\* String.prototype.substring(n)
Substring(s, n) == SubSeq(s, n + 1, Len(s))

UpperChars == <<"A", "B", "C", "D", "E", "F", "G", "H", "I", "J", "K", "L", "M",
                "N", "O", "P", "Q", "R", "S", "T", "U", "V", "W", "X", "Y", "Z">>
LowerChars == <<"a", "b", "c", "d", "e", "f", "g", "h", "i", "j", "k", "l", "m",
                "n", "o", "p", "q", "r", "s", "t", "u", "v", "w", "x", "y", "z">>

LowerOf == [c \in {UpperChars[k] : k \in 1..Len(UpperChars)} |->
             LowerChars[CHOOSE k \in 1..Len(UpperChars) : UpperChars[k] = c]]

LowerChar(c) == IF c \in DOMAIN LowerOf THEN LowerOf[c] ELSE c

\* String.prototype.toLowerCase
ToLowerCase(s) == [k \in 1..Len(s) |-> LowerChar(s[k])]

\* String.prototype.split(sep) for a one-character separator: the segments
\* between separators, empty segments included ("".split gives [""]).
RECURSIVE SplitFrom(_, _, _)
SplitFrom(s, sep, cur) ==
  IF s = <<>> THEN <<cur>>
  ELSE IF Head(s) = sep THEN <<cur>> \o SplitFrom(Tail(s), sep, <<>>)
  ELSE SplitFrom(Tail(s), sep, Append(cur, Head(s)))

Split(s, sep) == SplitFrom(s, sep, <<>>)

\* Array index (0-based): the element, or the empty string for undefined
\* (every use in the source tests the cell for truthiness first)
At(arr, idx) == IF idx >= 0 /\ idx < Len(arr) THEN arr[idx + 1] ELSE <<>>

\* JavaScript truthiness of arr[idx]: defined and not the empty string
Truthy(arr, idx) == idx >= 0 /\ idx < Len(arr) /\ arr[idx + 1] # <<>>

\* ------------------------------------------------------------------------
\* String literals of the source
\* ------------------------------------------------------------------------
sGeneral == <<"G", "e", "n", "e", "r", "a", "l">>
\* The type of a metric were there no default for it
sStringNoDefault == <<>>

sString == <<"s", "t", "r", "i", "n", "g">>
sDash == <<" ", "-", " ">>
\* The lexer of TLA+ admits no backquote inside a string: the one-character
\* string of the backquote is written BQ
BQ == "BQ"
sFence == <<BQ, BQ, BQ>>
sXTable == <<BQ, BQ, BQ, "x", "t", "a", "b", "l", "e">>
sH1 == <<"#", " ">>
sH2 == <<"#", "#", " ">>
sH3 == <<"#", "#", "#", " ">>
sField == <<"f", "i", "e", "l", "d">>
sType == <<"t", "y", "p", "e">>
sDescription == <<"d", "e", "s", "c", "r", "i", "p", "t", "i", "o", "n">>
sDetail == <<"d", "e", "t", "a", "i", "l">>
sDetails == <<"d", "e", "t", "a", "i", "l", "s">>

\* ------------------------------------------------------------------------
\* parseDeprecationStatus
\* ------------------------------------------------------------------------

\* 0-based positions where a case-insensitive regular expression that is a
\* plain literal matches
MatchPositions(s, pat) ==
  {k \in 0..(Len(s) - Len(pat)) :
     ToLowerCase(SubSeq(s, k + 1, k + Len(pat))) = ToLowerCase(pat)}

\* RegExp.prototype.test for such a pattern
RegexTest(s, pat) == MatchPositions(s, pat) # {}

\* String.prototype.replace(pattern, "") without the g flag: the leftmost
\* match is removed, later ones stay
ReplaceFirst(s, pat) ==
  IF MatchPositions(s, pat) = {} THEN s
  ELSE LET k == CHOOSE p \in MatchPositions(s, pat) :
                   \A q \in MatchPositions(s, pat) : p <= q
       IN  SubSeq(s, 1, k) \o SubSeq(s, k + Len(pat) + 1, Len(s))

toBeDeprecatedPattern ==
  <<"{", "-", "T", "o", " ", "b", "e", " ", "d", "e", "p", "r", "e", "c",
    "a", "t", "e", "d", "}">>
deprecatedPattern ==
  <<"{", "-", "d", "e", "p", "r", "e", "c", "a", "t", "e", "d", "}">>

\* parseDeprecationStatus with the two tests in the other order
parseDeprecationStatusDeprecatedFirst(fieldName) ==
  IF RegexTest(fieldName, deprecatedPattern)
  THEN [cleanName |-> Trim(ReplaceFirst(fieldName, deprecatedPattern)),
        status |-> "deprecated"]
  ELSE IF RegexTest(fieldName, toBeDeprecatedPattern)
  THEN [cleanName |-> Trim(ReplaceFirst(fieldName, toBeDeprecatedPattern)),
        status |-> "to_be_deprecated"]
  ELSE [cleanName |-> fieldName, status |-> "active"]

parseDeprecationStatus(fieldName) ==
  IF RegexTest(fieldName, toBeDeprecatedPattern)
  THEN [cleanName |-> Trim(ReplaceFirst(fieldName, toBeDeprecatedPattern)),
        status |-> "to_be_deprecated"]
  ELSE IF RegexTest(fieldName, deprecatedPattern)
  THEN [cleanName |-> Trim(ReplaceFirst(fieldName, deprecatedPattern)),
        status |-> "deprecated"]
  ELSE [cleanName |-> fieldName, status |-> "active"]

\* ------------------------------------------------------------------------
\* parseXTable
\* ------------------------------------------------------------------------

IsWidthChar(c) == c \in {"0", "1", "2", "3", "4", "5", "6", "7", "8", "9", "%"}

RECURSIVE WidthRun(_)
WidthRun(s) ==
  IF s # <<>> /\ IsWidthChar(Head(s)) THEN 1 + WidthRun(Tail(s)) ELSE 0

\* h.replace(/\{[\d%]+\}/g, "")
RECURSIVE StripWidths(_)
StripWidths(s) ==
  IF s = <<>> THEN <<>>
  ELSE LET n == WidthRun(Tail(s))
       IN  IF Head(s) = "{" /\ n >= 1 /\ Len(s) >= n + 2 /\ s[n + 2] = "}"
           THEN StripWidths(SubSeq(s, n + 3, Len(s)))
           ELSE <<Head(s)>> \o StripWidths(Tail(s))

\* line.replace(/^#/, "")
StripLeadingHash(line) ==
  IF line # <<>> /\ Head(line) = "#" THEN Tail(line) ELSE line

NonBlank(line) == Trim(line) # <<>>
NonEmpty(cell) == cell # <<>>
HeaderCell(h) == Trim(StripWidths(h))

\* One data line: split on "|", empty segments dropped, each cell trimmed
ParseRow(line) ==
  LET cells == SelectSeq(Split(StripLeadingHash(line), "|"), NonEmpty)
  IN  [k \in 1..Len(cells) |-> Trim(cells[k])]

\* The value that stands for the TypeError of lines[0].split on a block with
\* no non-blank line
TypeError == [error |-> "TypeError"]

\* A parser that takes the rows from the second non-blank line on
parseXTableKeepsSecondLine(tableContent) ==
  LET tableLines == SelectSeq(Split(tableContent, "\n"), NonBlank)
      headerCells == SelectSeq(Split(tableLines[1], "|"), NonBlank)
      dataLines == SubSeq(tableLines, 2, Len(tableLines))
  IN  IF tableLines = <<>> THEN TypeError
      ELSE [headers |-> [k \in 1..Len(headerCells) |-> HeaderCell(headerCells[k])],
            rows |-> [k \in 1..Len(dataLines) |-> ParseRow(dataLines[k])]]

parseXTable(tableContent) ==
  LET tableLines == SelectSeq(Split(tableContent, "\n"), NonBlank)
      headerCells == SelectSeq(Split(tableLines[1], "|"), NonBlank)
      dataLines == SubSeq(tableLines, 3, Len(tableLines))
  IN  IF tableLines = <<>> THEN TypeError
      ELSE [headers |-> [k \in 1..Len(headerCells) |-> HeaderCell(headerCells[k])],
            rows |-> [k \in 1..Len(dataLines) |-> ParseRow(dataLines[k])]]

\* ------------------------------------------------------------------------
\* extractMetricFromRow
\* ------------------------------------------------------------------------

\* A predicate that takes the header of exactly that name only
HeaderMatchesExactOnly(h, fragment, exact) == ToLowerCase(h) = exact

\* The predicate of each findIndex: the lower-cased header contains the
\* fragment or equals the exact name
HeaderMatches(h, fragment, exact) ==
  Includes(ToLowerCase(h), fragment) \/ ToLowerCase(h) = exact

\* headers.findIndex: 0-based index of the first matching header, -1 when
\* there is none
FindHeaderIndex(headers, fragment, exact) ==
  IF \E k \in 1..Len(headers) : HeaderMatches(headers[k], fragment, exact)
  THEN (CHOOSE k \in 1..Len(headers) :
          /\ HeaderMatches(headers[k], fragment, exact)
          /\ \A j \in 1..(k - 1) : ~HeaderMatches(headers[j], fragment, exact)) - 1
  ELSE -1

FieldIndex(headers) == FindHeaderIndex(headers, sField, sField)
TypeIndex(headers) == FindHeaderIndex(headers, sType, sType)
DescIndex(headers) == FindHeaderIndex(headers, sDescription, sDescription)
DetailIndex(headers) == FindHeaderIndex(headers, sDetail, sDetails)

\* The value that stands for null
NULL == [null |-> TRUE]

\* The early returns without the test for a leading "#"
RejectsRowNoHashTest(row, headers) ==
  LET fieldIndex == FieldIndex(headers)
      fieldName == At(row, fieldIndex)
  IN  \/ fieldIndex = -1 \/ Len(row) <= fieldIndex
      \/ fieldName = <<>> \/ Len(row) < 3

\* The two early returns of extractMetricFromRow
RejectsRow(row, headers) ==
  LET fieldIndex == FieldIndex(headers)
      fieldName == At(row, fieldIndex)
  IN  \/ fieldIndex = -1 \/ Len(row) <= fieldIndex
      \/ StartsWith(fieldName, <<"#">>) \/ fieldName = <<>> \/ Len(row) < 3

extractMetricFromRow(row, headers, category, subcategory) ==
  LET typeIndex == TypeIndex(headers)
      descIndex == DescIndex(headers)
      detailIndex == DetailIndex(headers)
      fieldName == At(row, FieldIndex(headers))
      parsed == parseDeprecationStatus(fieldName)
  IN  IF RejectsRow(row, headers) THEN NULL
      ELSE [name |-> parsed.cleanName,
            category |-> category,
            subcategory |-> subcategory,
            type |-> IF typeIndex # -1 /\ Truthy(row, typeIndex)
                     THEN At(row, typeIndex) ELSE sString,
            description |-> IF descIndex # -1 /\ Truthy(row, descIndex)
                            THEN At(row, descIndex) ELSE <<>>,
            commentary |-> IF detailIndex # -1 /\ Truthy(row, detailIndex)
                           THEN At(row, detailIndex) ELSE <<>>,
            deprecationStatus |-> parsed.status]

\* ------------------------------------------------------------------------
\* State
\* ------------------------------------------------------------------------
VARIABLES
  lines,                  \* processMarkdownContent: content.split("\n")
  i,                      \* the scan position (0-based)
  pc,                     \* where the walker is: scan, collect, rows, done,
                          \* raised (left by an exception)
  currentCategory,
  currentSubcategory,
  currentSubSubcategory,
  currentInlineHeader,
  metrics,                \* the output sequence
  tableContent,           \* the text collected between the fences
  headers,                \* parseXTable(tableContent).headers
  rows,                   \* parseXTable(tableContent).rows
  rowIndex,               \* position of rows.forEach (0-based)
  arg,                    \* argument of a direct call of a pure function
  ret,                    \* its return value
  \* processDocsWithConcurrency
  maxConcurrent,          \* the parameter
  queue,                  \* the nodes not yet started
  inProgress,             \* the promises of the tasks, in push order
  taskState,              \* of each node's processDocNode promise:
                          \* unstarted, pending, fulfilled, rejected
  poolPc,                 \* idle, fill, racing, sweep, resolved, rejected
  raceWinner,             \* the task that settles Promise.race(inProgress):
                          \* a set with that task, empty while there is none
  sweepIndex,             \* the i of the for loop
  \* VectorStoreService
  fileCache,              \* static fileCache: file id to cached search result
  fetched,                \* what the last fetch returned
  openai,                 \* static openai: TRUE once the client is created
  vectorStoreId,          \* static vectorStoreId: NULL or the id
  environment,            \* OPENAI_API_KEY, the config file and the stores
  initPc,                 \* the initialize() of module load: readConfig,
                          \* listStores, done, failed
  toolCall,               \* the tool call whose execute handler runs
  toolPc,                 \* where that handler is: idle, readConfig,
                          \* listStores, afterInit, request
  toolResults,            \* of each finished tool call: the call, how the
                          \* service method settled and how the handler did
  \* downloadDocs
  docTree,                \* the document tree in pre-order: depth and type
  docIndex,               \* the node processDocNode is at (1-based)
  downloadPc,             \* tree, outputDir, node, fetch, write, readme,
                          \* done, failed
  docContent,             \* what fetchDocContent returned for that node
  savedFiles              \* the files written, in order

ctxVars == <<currentCategory, currentSubcategory, currentSubSubcategory,
             currentInlineHeader>>
tableVars == <<tableContent, headers, rows, rowIndex>>
walkerVars == <<lines, i, pc, ctxVars, metrics, tableVars>>
callVars == <<arg, ret>>
poolVars == <<maxConcurrent, queue, inProgress, taskState, poolPc, raceWinner,
              sweepIndex>>
storeVars == <<fileCache, fetched>>
serviceVars == <<openai, vectorStoreId, environment, initPc, toolCall, toolPc,
                 toolResults>>
downloadVars == <<docTree, docIndex, downloadPc, docContent, savedFiles>>
auxVars == <<poolVars, storeVars, serviceVars, downloadVars>>
vars == <<walkerVars, callVars, auxVars>>

\* The value of ret before the call has returned
Pending == [pending |-> TRUE]

\* processDocsWithConcurrency has not been called
PoolIdle ==
  /\ maxConcurrent = 0
  /\ queue = <<>>
  /\ inProgress = <<>>
  /\ taskState = <<>>
  /\ poolPc = "idle"
  /\ raceWinner = {}
  /\ sweepIndex = 0

\* The static fields of VectorStoreService after class initialisation, and
\* no fetch made
StoreIdle == fileCache = <<>> /\ fetched = Pending

ServiceIdle ==
  /\ openai = FALSE
  /\ vectorStoreId = NULL
  /\ environment = <<>>
  /\ initPc = "idle"
  /\ toolCall = [name |-> "none"]
  /\ toolPc = "idle"
  /\ toolResults = <<>>

DownloadIdle ==
  /\ docTree = <<>>
  /\ docIndex = 0
  /\ downloadPc = "idle"
  /\ docContent = Pending
  /\ savedFiles = <<>>

OthersIdle == PoolIdle /\ StoreIdle /\ ServiceIdle /\ DownloadIdle

\* ------------------------------------------------------------------------
\* processMarkdownContent: the documents it is run on
\* ------------------------------------------------------------------------

\* Number of blocks (a heading line or a table block) of a document
MaxBlocks == 3

lineCategoryC == <<"#", " ", "C">>
lineCategoryD == <<"#", " ", " ", "D", " ">>
lineSubcategoryS == <<"#", "#", " ", "S">>
lineSubSubcategoryT == <<"#", "#", "#", " ", "T">>
HeadingLines == {lineCategoryC, lineCategoryD, lineSubcategoryS, lineSubSubcategoryT}

lineHeader ==
  <<"F", "i", "e", "l", "d", " ", "|", " ", "T", "y", "p", "e", " ", "|",
    " ", "D", "e", "s", "c", "r", "i", "p", "t", "i", "o", "n">>
lineSeparator == <<"-", "-", "-">>

rowMetricA == <<"a", " ", "|", " ", "n", " ", "|", " ", "d">>
rowMetricB ==
  <<"b", " ", "{", "-", "d", "e", "p", "r", "e", "c", "a", "t", "e", "d",
    "}", " ", "|", " ", "n", " ", "|", " ", "d">>
rowHashLabel == <<"#", "L">>
rowHashMetric == <<"#", "x", " ", "|", " ", "n", " ", "|", " ", "d">>
rowDoubleHash == <<"#", "#", "N">>
rowInlineH == <<"H">>
rowInlineK == <<"K", " ", "|", " ", " ", "|", " ", "d">>
rowHeadingLike == <<"#", " ", "E">>

\* A whitespace-only line and a data line with two cells
lineBlank == <<" ", " ">>
rowShort == <<"a", " ", "|", " ", "n">>
rowEmptyCell == <<"a", "|", "|", "d">>

\* The data lines of the table blocks
TableBodies ==
  { <<rowMetricA>>,
    <<rowInlineH, rowMetricA>>,
    <<rowMetricA, rowHashLabel, rowMetricB>>,
    <<rowDoubleHash, rowHashMetric>>,
    <<rowInlineK>>,
    <<rowHeadingLike, rowMetricA>> }

TableBlock(body) == <<sXTable, lineHeader, lineSeparator>> \o body \o <<sFence>>

\* A table block whose closing fence is missing
UnclosedBlock(body) == <<sXTable, lineHeader, lineSeparator>> \o body

Blocks ==
  {<<h>> : h \in HeadingLines} \cup {TableBlock(b) : b \in TableBodies}
    \cup {UnclosedBlock(<<rowMetricA>>)}

RECURSIVE DocsOf(_)
DocsOf(n) ==
  IF n = 0 THEN {<<>>}
  ELSE {<<>>} \cup {b \o d : b \in Blocks, d \in DocsOf(n - 1)}

Documents == DocsOf(MaxBlocks)

\* ------------------------------------------------------------------------
\* processMarkdownContent
\* ------------------------------------------------------------------------

IsCategoryLine(line) == StartsWith(line, sH1) /\ ~StartsWith(line, sH2)
IsSubcategoryLine(line) == StartsWith(line, sH2) /\ ~StartsWith(line, sH3)
IsSubSubcategoryLine(line) == StartsWith(line, sH3)
IsTableStart(line) == Includes(line, sXTable)
\* A closing test that also takes a heading-like line for the end of a block
IsTableEndOrHeading(line) == Includes(line, sFence) \/ StartsWith(line, sH1)

IsTableEnd(line) == Includes(line, sFence)

\* A category heading that keeps the raw text after "# "
CategoryHeadingUntrimmed(line) == <<Substring(line, 2), sGeneral, <<>>, <<>>>>

\* A subcategory heading that leaves the inline header in place
SubcategoryHeadingKeepsInline(line, category) ==
  <<category, Trim(Substring(line, 3)), <<>>, currentInlineHeader>>

\* A sub-subcategory heading that starts the subcategory anew
SubSubcategoryHeadingResetsSubcategory(line, category, subcategory) ==
  <<category, sGeneral, Trim(Substring(line, 4)), <<>>>>

\* The context after a heading line, as <<category, subcategory,
\* sub-subcategory, inline header>>
CategoryHeading(line) == <<Trim(Substring(line, 2)), sGeneral, <<>>, <<>>>>
SubcategoryHeading(line, category) == <<category, Trim(Substring(line, 3)), <<>>, <<>>>>
SubSubcategoryHeading(line, category, subcategory) ==
  <<category, subcategory, Trim(Substring(line, 4)), <<>>>>

\* fieldName of the inline-header test of rows.forEach
InlineFieldName(row, hs) == Trim(At(row, FieldIndex(hs)))

\* A type value that falls back to "string" as extractMetricFromRow does
InlineTypeValueDefaulted(row, hs) ==
  IF TypeIndex(hs) # -1 /\ Truthy(row, TypeIndex(hs))
  THEN Trim(At(row, TypeIndex(hs))) ELSE sString

InlineTypeValue(row, hs) ==
  IF TypeIndex(hs) # -1 /\ Truthy(row, TypeIndex(hs))
  THEN Trim(At(row, TypeIndex(hs))) ELSE <<>>

\* The inline-header test narrowed to rows of a single cell
IsInlineHeaderRowSingleCell(row, hs) ==
  /\ Len(row) = 1
  /\ FieldIndex(hs) # -1
  /\ Truthy(row, FieldIndex(hs))
  /\ InlineTypeValue(row, hs) = <<>>
  /\ ~StartsWith(InlineFieldName(row, hs), <<"#">>)

IsInlineHeaderRow(row, hs) ==
  /\ FieldIndex(hs) # -1
  /\ Truthy(row, FieldIndex(hs))
  /\ InlineFieldName(row, hs) # <<>>
  /\ InlineTypeValue(row, hs) = <<>>
  /\ ~StartsWith(InlineFieldName(row, hs), <<"#">>)

\* The composition without the special case of the default "General"
EffectiveSubcategoryAlwaysAppends(subcategory, subSubcategory, inlineHeader) ==
  LET withSub == IF subSubcategory # <<>>
                 THEN subcategory \o sDash \o subSubcategory
                 ELSE subcategory
  IN  IF inlineHeader # <<>> THEN withSub \o sDash \o inlineHeader ELSE withSub

EffectiveSubcategory(subcategory, subSubcategory, inlineHeader) ==
  LET withSub == IF subSubcategory # <<>>
                 THEN subcategory \o sDash \o subSubcategory
                 ELSE subcategory
  IN  IF inlineHeader # <<>>
      THEN IF withSub = sGeneral THEN inlineHeader
           ELSE withSub \o sDash \o inlineHeader
      ELSE withSub

WalkerInit ==
  /\ lines \in Documents
  /\ i = 0
  /\ pc = "scan"
  /\ currentCategory = sGeneral
  /\ currentSubcategory = sGeneral
  /\ currentSubSubcategory = <<>>
  /\ currentInlineHeader = <<>>
  /\ metrics = <<>>
  /\ tableContent = <<>>
  /\ headers = <<>>
  /\ rows = <<>>
  /\ rowIndex = 0

\* One iteration of the outer while loop on a line outside a table block
ScanLine ==
  /\ pc = "scan"
  /\ i < Len(lines)
  /\ LET line == lines[i + 1]
         ctx == IF IsCategoryLine(line) THEN CategoryHeading(line)
                ELSE IF IsSubcategoryLine(line)
                THEN SubcategoryHeading(line, currentCategory)
                ELSE IF IsSubSubcategoryLine(line)
                THEN SubSubcategoryHeading(line, currentCategory, currentSubcategory)
                ELSE <<currentCategory, currentSubcategory, currentSubSubcategory,
                       currentInlineHeader>>
         opens == ~IsCategoryLine(line) /\ ~IsSubcategoryLine(line)
                    /\ ~IsSubSubcategoryLine(line) /\ IsTableStart(line)
     IN  /\ currentCategory' = ctx[1]
         /\ currentSubcategory' = ctx[2]
         /\ currentSubSubcategory' = ctx[3]
         /\ currentInlineHeader' = ctx[4]
         /\ i' = i + 1
         /\ pc' = IF opens THEN "collect" ELSE "scan"
         /\ tableContent' = IF opens THEN <<>> ELSE tableContent
  /\ UNCHANGED <<lines, metrics, headers, rows, rowIndex, callVars, auxVars>>

\* An inner loop that stays on the line it is at
CollectLineStays ==
  /\ pc = "collect"
  /\ i < Len(lines)
  /\ ~IsTableEnd(lines[i + 1])
  /\ UNCHANGED <<lines, i, pc, ctxVars, metrics, tableVars, callVars, auxVars>>

\* One iteration of the inner while loop: a line before the closing fence
CollectLine ==
  /\ pc = "collect"
  /\ i < Len(lines)
  /\ ~IsTableEnd(lines[i + 1])
  /\ tableContent' = tableContent \o lines[i + 1] \o <<"\n">>
  /\ i' = i + 1
  /\ UNCHANGED <<lines, pc, ctxVars, metrics, headers, rows, rowIndex, callVars, auxVars>>

\* if (tableContent.trim())
HasTableTextAlways(text) == TRUE

HasTableText(text) == Trim(text) # <<>>

\* The inner loop ends at the closing fence or at the end of the document;
\* a block with text is parsed, an empty one is skipped (then i++); an
\* exception of parseXTable leaves processMarkdownContent (pc "raised")
EndCollect ==
  /\ pc = "collect"
  /\ ~(i < Len(lines) /\ ~IsTableEnd(lines[i + 1]))
  /\ IF HasTableText(tableContent)
     THEN LET table == parseXTable(tableContent)
          IN  IF table = TypeError
              THEN /\ pc' = "raised"
                   /\ UNCHANGED <<i, headers, rows, rowIndex>>
              ELSE /\ headers' = table.headers
                   /\ rows' = table.rows
                   /\ rowIndex' = 0
                   /\ pc' = "rows"
                   /\ i' = i
     ELSE /\ pc' = "scan"
          /\ i' = i + 1
          /\ UNCHANGED <<headers, rows, rowIndex>>
  /\ UNCHANGED <<lines, ctxVars, metrics, tableContent, callVars, auxVars>>

\* metrics.push(metric), here without a metric equal to one pushed before
PushMetricOnce(list, metric) ==
  IF \E k \in 1..Len(list) : list[k] = metric THEN list ELSE Append(list, metric)

\* metrics.push(metric)
PushMetric(list, metric) == Append(list, metric)

\* One call of the rows.forEach callback
ProcessRow ==
  /\ pc = "rows"
  /\ rowIndex < Len(rows)
  /\ LET row == rows[rowIndex + 1]
         effectiveSubcategory ==
           EffectiveSubcategory(currentSubcategory, currentSubSubcategory,
                                currentInlineHeader)
         metric == extractMetricFromRow(row, headers, currentCategory,
                                        effectiveSubcategory)
     IN  IF IsInlineHeaderRow(row, headers)
         THEN /\ currentInlineHeader' = InlineFieldName(row, headers)
              /\ metrics' = metrics
         ELSE /\ currentInlineHeader' = currentInlineHeader
              /\ metrics' = IF metric # NULL THEN PushMetric(metrics, metric) ELSE metrics
  /\ rowIndex' = rowIndex + 1
  /\ UNCHANGED <<lines, i, pc, currentCategory, currentSubcategory,
                 currentSubSubcategory, tableContent, headers, rows, callVars, auxVars>>

\* After the last row: the i++ that steps over the closing fence
EndRows ==
  /\ pc = "rows"
  /\ rowIndex >= Len(rows)
  /\ i' = i + 1
  /\ pc' = "scan"
  /\ UNCHANGED <<lines, ctxVars, metrics, tableVars, callVars, auxVars>>

\* The outer loop ends: return metrics
Return ==
  /\ pc = "scan"
  /\ i >= Len(lines)
  /\ pc' = "done"
  /\ UNCHANGED <<lines, i, ctxVars, metrics, tableVars, callVars, auxVars>>

Init == WalkerInit /\ arg = <<>> /\ ret = Pending /\ OthersIdle

Next == ScanLine \/ CollectLine \/ EndCollect \/ ProcessRow \/ EndRows \/ Return

Spec == Init /\ [][Next]_vars

\* ------------------------------------------------------------------------
\* The walker on documents with irregular table blocks
\* ------------------------------------------------------------------------
lineHeaderUnknown == <<"N", "a", "m", "e", " ", "|", " ", "K", "i", "n", "d", " ", "|", " ", "N", "o", "t", "e", "s">>
rowUnderUnknown == <<"q", " ", "|", " ", "n", " ", "|", " ", "d">>
rowLong == <<"e", " ", "|", " ", "n", " ", "|", " ", "d", " ", "|", " ", "z">>

IrregularBlocks ==
  { <<sXTable, sFence>>,
    <<sXTable, lineBlank, sFence>>,
    <<sXTable, lineHeader, sFence>>,
    <<sXTable, lineHeaderUnknown, lineSeparator, rowUnderUnknown, sFence>>,
    TableBlock(<<rowShort, rowLong>>),
    TableBlock(<<rowMetricA>>),
    <<lineCategoryC>> }

RECURSIVE IrregularDocsOf(_)
IrregularDocsOf(n) ==
  IF n = 0 THEN {<<>>}
  ELSE {<<>>} \cup {block \o rest :
                      block \in IrregularBlocks, rest \in IrregularDocsOf(n - 1)}

IrregularDocuments == IrregularDocsOf(MaxBlocks)

IrregularInit ==
  /\ lines \in IrregularDocuments
  /\ i = 0
  /\ pc = "scan"
  /\ currentCategory = sGeneral
  /\ currentSubcategory = sGeneral
  /\ currentSubSubcategory = <<>>
  /\ currentInlineHeader = <<>>
  /\ metrics = <<>>
  /\ tableContent = <<>>
  /\ headers = <<>>
  /\ rows = <<>>
  /\ rowIndex = 0
  /\ arg = <<>>
  /\ ret = Pending
  /\ OthersIdle

SpecIrregular == IrregularInit /\ [][Next]_vars

\* ------------------------------------------------------------------------
\* processMarkdownContent called several times, one call after the other
\* (the function is synchronous: a call runs to its return before the next
\* one starts). arg holds the documents still to be processed, ret the
\* documents processed so far with the metrics returned for them.
\* ------------------------------------------------------------------------

\* Number of calls
MaxCalls == 3

CallDocuments ==
  { <<lineCategoryC, lineSubcategoryS, lineSubSubcategoryT>>
      \o TableBlock(<<rowInlineH, rowMetricA>>),
    <<lineSubSubcategoryT>> \o TableBlock(<<rowMetricA>>),
    TableBlock(<<rowMetricA>>),
    UnclosedBlock(<<rowMetricA>>) }

RECURSIVE CallSequencesOf(_)
CallSequencesOf(n) ==
  IF n = 1 THEN {<<doc>> : doc \in CallDocuments}
  ELSE CallSequencesOf(n - 1)
         \cup {<<doc>> \o rest : doc \in CallDocuments,
                                 rest \in CallSequencesOf(n - 1)}

\* The context variables keep the values the call before left in them
StaleContext ==
  <<currentCategory, currentSubcategory, currentSubSubcategory,
    currentInlineHeader>>

\* let currentCategory = "General" ... let currentInlineHeader = ""
FreshContext == <<sGeneral, sGeneral, <<>>, <<>>>>

CallsInit ==
  /\ \E docs \in CallSequencesOf(MaxCalls) : lines = Head(docs) /\ arg = Tail(docs)
  /\ ret = <<>>
  /\ i = 0
  /\ pc = "scan"
  /\ currentCategory = sGeneral
  /\ currentSubcategory = sGeneral
  /\ currentSubSubcategory = <<>>
  /\ currentInlineHeader = <<>>
  /\ metrics = <<>>
  /\ tableContent = <<>>
  /\ headers = <<>>
  /\ rows = <<>>
  /\ rowIndex = 0
  /\ OthersIdle

\* The caller takes the metrics returned and calls processMarkdownContent on
\* the next document: the locals of the new call are initialised
CallAgain ==
  /\ pc = "done"
  /\ arg # <<>>
  /\ ret' = Append(ret, [content |-> lines, metrics |-> metrics])
  /\ lines' = Head(arg)
  /\ arg' = Tail(arg)
  /\ i' = 0
  /\ pc' = "scan"
  /\ currentCategory' = FreshContext[1]
  /\ currentSubcategory' = FreshContext[2]
  /\ currentSubSubcategory' = FreshContext[3]
  /\ currentInlineHeader' = FreshContext[4]
  /\ metrics' = <<>>
  /\ tableContent' = <<>>
  /\ headers' = <<>>
  /\ rows' = <<>>
  /\ rowIndex' = 0
  /\ UNCHANGED auxVars

NextCalls ==
  ScanLine \/ CollectLine \/ EndCollect \/ ProcessRow \/ EndRows \/ Return
    \/ CallAgain

SpecCalls == CallsInit /\ [][NextCalls]_vars

\* ------------------------------------------------------------------------
\* The walker on documents with other fences and another header list: a
\* heading-like line inside a block, a block closed by a line that holds
\* the opening fence, a block that is never closed, and a table whose
\* headers name no type column
\* ------------------------------------------------------------------------
lineHeaderNoType == <<"F", "i", "e", "l", "d", " ", "|", " ", "D", "e", "s", "c", "r", "i", "p", "t", "i", "o", "n">>
rowInlineHd == <<"H", " ", "|", " ", "d">>
rowHashNd == <<"#", "#", "N", " ", "|", " ", "d">>

VariantBlocks ==
  { TableBlock(<<rowHeadingLike, rowMetricA>>),
    <<sXTable, lineHeader, lineSeparator, rowMetricA, sXTable>>,
    UnclosedBlock(<<rowMetricA>>),
    <<sXTable, lineHeaderNoType, lineSeparator, rowInlineHd, rowHashNd,
      rowMetricA, sFence>>,
    TableBlock(<<rowInlineK, rowHashMetric>>),
    <<lineCategoryC>> }

RECURSIVE VariantDocsOf(_)
VariantDocsOf(n) ==
  IF n = 0 THEN {<<>>}
  ELSE {<<>>} \cup {block \o rest :
                      block \in VariantBlocks, rest \in VariantDocsOf(n - 1)}

VariantInit ==
  /\ lines \in VariantDocsOf(MaxBlocks)
  /\ i = 0
  /\ pc = "scan"
  /\ currentCategory = sGeneral
  /\ currentSubcategory = sGeneral
  /\ currentSubSubcategory = <<>>
  /\ currentInlineHeader = <<>>
  /\ metrics = <<>>
  /\ tableContent = <<>>
  /\ headers = <<>>
  /\ rows = <<>>
  /\ rowIndex = 0
  /\ arg = <<>>
  /\ ret = Pending
  /\ OthersIdle

SpecVariants == VariantInit /\ [][Next]_vars

\* ------------------------------------------------------------------------
\* The walker on documents of short lines, with its loops going on while
\* they can: once called, the function runs until it returns or raises
\* ------------------------------------------------------------------------
lineShortHeader == <<"f">>
lineShortSeparator == <<"-">>
lineShortRow == <<"r">>
linePlain == <<"x">>

ShortBlocks ==
  { <<linePlain>>,
    <<sXTable, lineShortHeader, lineShortSeparator, lineShortRow, sFence>>,
    <<sXTable, lineShortHeader, lineShortSeparator, lineShortRow>> }

RECURSIVE ShortDocsOf(_)
ShortDocsOf(n) ==
  IF n = 0 THEN {<<>>}
  ELSE {<<>>} \cup {block \o rest :
                      block \in ShortBlocks, rest \in ShortDocsOf(n - 1)}

ShortInit ==
  /\ lines \in ShortDocsOf(MaxBlocks)
  /\ i = 0
  /\ pc = "scan"
  /\ currentCategory = sGeneral
  /\ currentSubcategory = sGeneral
  /\ currentSubSubcategory = <<>>
  /\ currentInlineHeader = <<>>
  /\ metrics = <<>>
  /\ tableContent = <<>>
  /\ headers = <<>>
  /\ rows = <<>>
  /\ rowIndex = 0
  /\ arg = <<>>
  /\ ret = Pending
  /\ OthersIdle

FairSpec == ShortInit /\ [][Next]_vars /\ WF_vars(Next)

\* ------------------------------------------------------------------------
\* Direct calls of parseDeprecationStatus and extractMetricFromRow
\* ------------------------------------------------------------------------

\* The walker is not running during a direct call
WalkerIdle ==
  /\ lines = <<>>
  /\ i = 0
  /\ pc = "call"
  /\ currentCategory = sGeneral
  /\ currentSubcategory = sGeneral
  /\ currentSubSubcategory = <<>>
  /\ currentInlineHeader = <<>>
  /\ metrics = <<>>
  /\ tableContent = <<>>
  /\ headers = <<>>
  /\ rows = <<>>
  /\ rowIndex = 0

\* Number of pieces a field name is put together from
MaxNameParts == 3

nameSpace == <<" ">>
nameA == <<"a">>
nameUnterminated ==
  <<"{", "-", "d", "e", "p", "r", "e", "c", "a", "t", "e", "d">>
nameDeprecated ==
  <<"{", "-", "d", "e", "p", "r", "e", "c", "a", "t", "e", "d", "}">>
nameDeprecatedUpper ==
  <<"{", "-", "D", "E", "P", "R", "E", "C", "A", "T", "E", "D", "}">>
nameToBeDeprecated ==
  <<"{", "-", "T", "o", " ", "b", "e", " ", "d", "e", "p", "r", "e", "c",
    "a", "t", "e", "d", "}">>
nameToBeDeprecatedMixed ==
  <<"{", "-", "t", "o", " ", "B", "E", " ", "D", "e", "p", "r", "e", "c",
    "a", "t", "e", "d", "}">>

NameParts ==
  { nameSpace, nameA, nameUnterminated, nameDeprecated, nameDeprecatedUpper,
    nameToBeDeprecated, nameToBeDeprecatedMixed }

RECURSIVE NamesOf(_)
NamesOf(n) ==
  IF n = 0 THEN {<<>>}
  ELSE {<<>>} \cup {part \o rest : part \in NameParts, rest \in NamesOf(n - 1)}

FieldNames == NamesOf(MaxNameParts)

DepInit == WalkerIdle /\ arg \in FieldNames /\ ret = Pending /\ OthersIdle

CallParseDeprecationStatus ==
  /\ pc = "call"
  /\ ret' = parseDeprecationStatus(arg)
  /\ pc' = "returned"
  /\ UNCHANGED <<lines, i, ctxVars, metrics, tableVars, arg, auxVars>>

NextDep == CallParseDeprecationStatus

SpecDep == DepInit /\ [][NextDep]_vars

\* Number of cells of a row
MaxCells == 3

cellA == <<"a">>
cellN == <<"n">>
cellNotes == <<"#", "N", "o", "t", "e", "s">>
cellMarkerOnly ==
  <<"{", "-", "d", "e", "p", "r", "e", "c", "a", "t", "e", "d", "}">>

Cells == { <<>>, cellA, cellN, cellNotes, cellMarkerOnly }

RECURSIVE RowsOf(_)
RowsOf(n) ==
  IF n = 0 THEN {<<>>}
  ELSE {<<>>} \cup {<<cell>> \o rest : cell \in Cells, rest \in RowsOf(n - 1)}

hField == <<"F", "i", "e", "l", "d">>
hType == <<"T", "y", "p", "e">>
hDescription == <<"D", "e", "s", "c", "r", "i", "p", "t", "i", "o", "n">>
hName == <<"N", "a", "m", "e">>
hFieldName == <<"F", "i", "e", "l", "d", " ", "n", "a", "m", "e">>
hDetail == <<"D", "e", "t", "a", "i", "l">>
hDetails == <<"D", "e", "t", "a", "i", "l", "s">>
hSubtype == <<"S", "u", "b", "t", "y", "p", "e">>

headersStandard == <<hField, hType, hDescription>>
headersNoField == <<hName, hType, hDescription>>
headersFieldSecond == <<hType, hFieldName, hDetail>>
headersSubtype == <<hField, hSubtype, hType, hDetails>>
headersNoType == <<hField, hDescription, hDetail>>

HeaderLists ==
  { headersStandard, headersNoField, headersFieldSecond, headersSubtype,
    headersNoType }

RowInit ==
  /\ WalkerIdle
  /\ arg \in [row : RowsOf(MaxCells), headers : HeaderLists,
              category : {<<"C">>}, subcategory : {<<"S">>}]
  /\ ret = Pending
  /\ OthersIdle

CallExtractMetricFromRow ==
  /\ pc = "call"
  /\ ret' = extractMetricFromRow(arg.row, arg.headers, arg.category, arg.subcategory)
  /\ pc' = "returned"
  /\ UNCHANGED <<lines, i, ctxVars, metrics, tableVars, arg, auxVars>>

NextRow == CallExtractMetricFromRow

SpecRow == RowInit /\ [][NextRow]_vars

\* ------------------------------------------------------------------------
\* parseXTable called on its own: the text of a table block is put together
\* the way the walker collects it, every line followed by a line break
\* ------------------------------------------------------------------------

\* Number of lines of the block
MaxTableLines == 3

lineHeaderWidths == <<"F", "i", "e", "l", "d", "{", "2", "0", "%", "}", " ", "|", " ", "T", "y", "p", "e">>

TableLines ==
  { <<>>, lineBlank, lineHeader, lineHeaderWidths, lineSeparator, rowMetricA,
    rowHashMetric, rowInlineK, rowShort, rowEmptyCell }

RECURSIVE TableTextsOf(_)
TableTextsOf(n) ==
  IF n = 0 THEN {<<>>}
  ELSE {<<>>} \cup {line \o <<"\n">> \o rest :
                      line \in TableLines, rest \in TableTextsOf(n - 1)}

TableTexts == TableTextsOf(MaxTableLines)

TableInit == WalkerIdle /\ arg \in TableTexts /\ ret = Pending /\ OthersIdle

CallParseXTable ==
  /\ pc = "call"
  /\ ret' = parseXTable(arg)
  /\ pc' = "returned"
  /\ UNCHANGED <<lines, i, ctxVars, metrics, tableVars, arg, auxVars>>

NextTable == CallParseXTable

SpecTable == TableInit /\ [][NextTable]_vars

\* ------------------------------------------------------------------------
\* Vocabulary of the properties of processMarkdownContent
\* ------------------------------------------------------------------------

\* The data lines of the table block being processed (pc = "rows"): its
\* non-blank lines after the header line and the separator line
DataLines ==
  LET nonBlank == SelectSeq(Split(tableContent, "\n"), NonBlank)
  IN  SubSeq(nonBlank, 3, Len(nonBlank))

\* The step is the forEach callback on the row at rowIndex
RowStep == pc = "rows" /\ rowIndex < Len(rows)

\* The row of that step, and its cells in the columns the first header
\* containing "field" and the first header containing "type" name
CurrentRow == rows[rowIndex + 1]

HeaderPosition(hs, fragment) ==
  {k \in 1..Len(hs) :
     /\ Includes(ToLowerCase(hs[k]), fragment)
     /\ \A j \in 1..(k - 1) : ~Includes(ToLowerCase(hs[j]), fragment)}

CellUnder(row, hs, fragment) ==
  IF \E k \in HeaderPosition(hs, fragment) : k <= Len(row)
  THEN row[CHOOSE k \in HeaderPosition(hs, fragment) : TRUE]
  ELSE <<>>

FieldValue == CellUnder(CurrentRow, headers, sField)
TypeValue == CellUnder(CurrentRow, headers, sType)

\* The step scans a heading line of any level outside a table block
HeadingStep ==
  /\ pc = "scan"
  /\ i < Len(lines)
  /\ \/ StartsWith(lines[i + 1], sH1)
     \/ StartsWith(lines[i + 1], sH2)
     \/ StartsWith(lines[i + 1], sH3)

\* The step appends exactly one metric to the output
Emits == Len(metrics') = Len(metrics) + 1 /\ SubSeq(metrics', 1, Len(metrics)) = metrics

Emitted == metrics'[Len(metrics')]

EndsWith(s, p) == Len(s) >= Len(p) /\ SubSeq(s, Len(s) - Len(p) + 1, Len(s)) = p

sC == <<"C">>
sD == <<"D">>
sS == <<"S">>
sT == <<"T">>
sH == <<"H">>
sNameA == <<"a">>
sNameB == <<"b">>

\* ------------------------------------------------------------------------
\* groupMetrics: metrics.reduce over an accumulator that starts as the
\* object literal {}. An object literal has own properties and inherits the
\* properties of Object.prototype; a property read looks at both, a
\* property write makes an own property, and Object.keys, Object.entries,
\* Object.values and JSON.stringify see the own properties only.
\* ------------------------------------------------------------------------
sConstructor == <<"c", "o", "n", "s", "t", "r", "u", "c", "t", "o", "r">>
sToString == <<"t", "o", "S", "t", "r", "i", "n", "g">>
sValueOf == <<"v", "a", "l", "u", "e", "O", "f">>

\* Names under which an object literal, and a function as well, inherits a
\* function
InheritedKeys == {sConstructor, sToString, sValueOf}

\* The accumulator: own maps a category that is an own property of acc to
\* the own properties of the object stored there (subcategory to list);
\* onInherited maps <<category, subcategory>> to the list that was stored as
\* a property of the function acc inherits under that category; raised says
\* that the callback threw a TypeError, which ends the reduce
EmptyAcc == [own |-> <<>>, onInherited |-> <<>>, raised |-> FALSE]

\* if (!acc[metric.category]) acc[metric.category] = {}
WithCategory(acc, category) ==
  IF category \in DOMAIN acc.own \/ category \in InheritedKeys
  THEN acc
  ELSE LET own == (category :> <<>>) @@ acc.own
       IN  [acc EXCEPT !.own = own]

\* if (!acc[c][s]) acc[c][s] = []; acc[c][s].push(metric), where acc[c] is
\* an own object of acc
PushUnderOwn(acc, metric) ==
  LET c == metric.category
      s == metric.subcategory
      object == acc.own[c]
      pushed == (s :> Append(object[s], metric)) @@ object
      created == (s :> <<metric>>) @@ object
  IN  IF s \in DOMAIN object
      THEN [acc EXCEPT !.own[c] = pushed]
      ELSE IF s \in InheritedKeys
      THEN [acc EXCEPT !.raised = TRUE]
      ELSE [acc EXCEPT !.own[c] = created]

\* The same statements, where acc[c] is a function inherited by acc
PushUnderInherited(acc, metric) ==
  LET key == <<metric.category, metric.subcategory>>
      pushed == (key :> Append(acc.onInherited[key], metric)) @@ acc.onInherited
      created == (key :> <<metric>>) @@ acc.onInherited
  IN  IF key \in DOMAIN acc.onInherited
      THEN [acc EXCEPT !.onInherited = pushed]
      ELSE IF metric.subcategory \in InheritedKeys
      THEN [acc EXCEPT !.raised = TRUE]
      ELSE [acc EXCEPT !.onInherited = created]

\* The callback of the reduce
GroupStep(acc, metric) ==
  LET withCategory == WithCategory(acc, metric.category)
  IN  IF metric.category \in DOMAIN withCategory.own
      THEN PushUnderOwn(withCategory, metric)
      ELSE PushUnderInherited(withCategory, metric)

RECURSIVE ReduceFrom(_, _, _)
ReduceFrom(list, k, acc) ==
  IF k > Len(list) \/ acc.raised THEN acc
  ELSE ReduceFrom(list, k + 1, GroupStep(acc, list[k]))

\* What the call gives: the TypeError, or the own properties of acc
groupMetrics(list) ==
  LET acc == ReduceFrom(list, 1, EmptyAcc)
  IN  IF acc.raised THEN TypeError ELSE acc.own

\* Number of metrics of the list
MaxMetrics == 3

MetricOf(name, category, subcategory) ==
  [name |-> name, category |-> category, subcategory |-> subcategory,
   type |-> sString, description |-> <<>>, commentary |-> <<>>,
   deprecationStatus |-> "active"]

GroupedMetrics ==
  {MetricOf(name, category, subcategory) :
     name \in {sNameA, sNameB}, category \in {sC, sConstructor},
     subcategory \in {sS, sT}}
    \cup {MetricOf(sNameA, sC, sConstructor)}

RECURSIVE MetricListsOf(_)
MetricListsOf(n) ==
  IF n = 0 THEN {<<>>}
  ELSE {<<>>} \cup {<<metric>> \o rest :
                      metric \in GroupedMetrics, rest \in MetricListsOf(n - 1)}

GroupInit ==
  WalkerIdle /\ arg \in MetricListsOf(MaxMetrics) /\ ret = Pending /\ OthersIdle

CallGroupMetrics ==
  /\ pc = "call"
  /\ ret' = groupMetrics(arg)
  /\ pc' = "returned"
  /\ UNCHANGED <<lines, i, ctxVars, metrics, tableVars, arg, auxVars>>

NextGroup == CallGroupMetrics

SpecGroup == GroupInit /\ [][NextGroup]_vars

\* ------------------------------------------------------------------------
\* processDocsWithConcurrency. A node stands for the promise of its
\* processDocNode task (the task of a node works through the node's subtree
\* by itself, one child after the other). The function runs without a break
\* from one await to the next; a task settles only while the function waits
\* at an await or after it has returned.
\* ------------------------------------------------------------------------

\* Number of nodes
MaxNodes == 4

\* Values of maxConcurrent
ConcurrencyLimits == {1, 2}

PoolInit ==
  /\ WalkerIdle
  /\ arg = <<>>
  /\ ret = Pending
  /\ StoreIdle
  /\ ServiceIdle
  /\ DownloadIdle
  /\ maxConcurrent \in ConcurrencyLimits
  /\ \E n \in 0..MaxNodes :
       /\ queue = [k \in 1..n |-> k]
       /\ taskState = [k \in 1..n |-> "unstarted"]
  /\ inProgress = <<>>
  /\ poolPc = "fill"
  /\ raceWinner = {}
  /\ sweepIndex = 0

\* The condition of the inner while loop
CanStart == Len(inProgress) < maxConcurrent /\ queue # <<>>

Settled(t) == taskState[t] \in {"fulfilled", "rejected"}

\* One iteration of the inner loop: queue.shift(), processDocNode(...),
\* inProgress.push(task)
StartTask ==
  /\ poolPc = "fill"
  /\ CanStart
  /\ queue' = Tail(queue)
  /\ taskState' = [taskState EXCEPT ![Head(queue)] = "pending"]
  /\ inProgress' = Append(inProgress, Head(queue))
  /\ UNCHANGED <<maxConcurrent, poolPc, raceWinner, sweepIndex>>
  /\ UNCHANGED <<walkerVars, callVars, storeVars, serviceVars, downloadVars>>

\* await Promise.race(inProgress) begins: a promise that is settled already
\* wins, the first of them in the order of the array
AwaitRace ==
  /\ poolPc = "fill"
  /\ ~CanStart
  /\ inProgress # <<>>
  /\ poolPc' = "racing"
  /\ raceWinner' =
       IF \E k \in 1..Len(inProgress) : Settled(inProgress[k])
       THEN {inProgress[CHOOSE k \in 1..Len(inProgress) :
                          /\ Settled(inProgress[k])
                          /\ \A j \in 1..(k - 1) : ~Settled(inProgress[j])]}
       ELSE {}
  /\ UNCHANGED <<maxConcurrent, queue, inProgress, taskState, sweepIndex>>
  /\ UNCHANGED <<walkerVars, callVars, storeVars, serviceVars, downloadVars>>

\* A task settles; the first one to do so while the race is open wins it
TaskSettles ==
  /\ poolPc \in {"racing", "sweep", "resolved", "rejected"}
  /\ \E t \in DOMAIN taskState, outcome \in {"fulfilled", "rejected"} :
       /\ taskState[t] = "pending"
       /\ taskState' = [taskState EXCEPT ![t] = outcome]
       /\ raceWinner' =
            IF /\ poolPc = "racing"
               /\ raceWinner = {}
               /\ \E k \in 1..Len(inProgress) : inProgress[k] = t
            THEN {t} ELSE raceWinner
  /\ UNCHANGED <<maxConcurrent, queue, inProgress, poolPc, sweepIndex>>
  /\ UNCHANGED <<walkerVars, callVars, storeVars, serviceVars, downloadVars>>

\* The body of the for loop at index idx (0-based): Promise.race of the task
\* and Promise.resolve() rejects only when the task is rejected already, and
\* is fulfilled otherwise, also for a pending task; then splice(idx, 1)
SweepAt(list, idx) ==
  IF taskState[list[idx + 1]] = "rejected"
  THEN list
  ELSE SubSeq(list, 1, idx) \o SubSeq(list, idx + 2, Len(list))

\* await Promise.race(inProgress) ends: a rejected winner is thrown out of
\* the function, otherwise the for loop starts at the last index
RaceEnds ==
  /\ poolPc = "racing"
  /\ raceWinner # {}
  /\ IF \E t \in raceWinner : taskState[t] = "rejected"
     THEN /\ poolPc' = "rejected"
          /\ UNCHANGED <<inProgress, sweepIndex>>
     ELSE /\ poolPc' = "sweep"
          /\ sweepIndex' = Len(inProgress) - 1
          /\ inProgress' = SweepAt(inProgress, Len(inProgress) - 1)
  /\ raceWinner' = {}
  /\ UNCHANGED <<maxConcurrent, queue, taskState>>
  /\ UNCHANGED <<walkerVars, callVars, storeVars, serviceVars, downloadVars>>

\* The await of the for loop at sweepIndex ends: the next index, or back to
\* the test of the outer loop
SweepNext ==
  /\ poolPc = "sweep"
  /\ IF sweepIndex > 0
     THEN /\ sweepIndex' = sweepIndex - 1
          /\ inProgress' = SweepAt(inProgress, sweepIndex - 1)
          /\ poolPc' = "sweep"
     ELSE /\ poolPc' = "fill"
          /\ UNCHANGED <<inProgress, sweepIndex>>
  /\ UNCHANGED <<maxConcurrent, queue, taskState, raceWinner>>
  /\ UNCHANGED <<walkerVars, callVars, storeVars, serviceVars, downloadVars>>

\* The outer loop ends: the promise of the function is fulfilled
PoolReturns ==
  /\ poolPc = "fill"
  /\ queue = <<>>
  /\ inProgress = <<>>
  /\ poolPc' = "resolved"
  /\ UNCHANGED <<maxConcurrent, queue, inProgress, taskState, raceWinner,
                 sweepIndex>>
  /\ UNCHANGED <<walkerVars, callVars, storeVars, serviceVars, downloadVars>>

NextPool ==
  StartTask \/ AwaitRace \/ TaskSettles \/ RaceEnds \/ SweepNext \/ PoolReturns

SpecPool == PoolInit /\ [][NextPool]_vars

\* ------------------------------------------------------------------------
\* VectorStoreService.search and VectorStoreService.fetch, with the client
\* initialised and the vector store configured. The files of the store and
\* what the service answers are the environment: a search result names a
\* file and holds chunks of its text, whichever the service matched.
\* ------------------------------------------------------------------------

\* Number of results of one search response, and of chunks of one result
MaxResults == 2
MaxContentParts == 2

FileIds == {"file_1", "file_2"}

\* The text of the document files
FileText == [id \in FileIds |-> IF id = "file_1" THEN <<"p", "q">> ELSE <<"r">>]

\* The chunks a file may be stored in: the non-empty pieces of its text
ChunksOf(id) ==
  {SubSeq(FileText[id], from, to) :
     from \in 1..Len(FileText[id]), to \in 1..Len(FileText[id])} \ {<<>>}

RECURSIVE ContentsOf(_, _)
ContentsOf(id, n) ==
  IF n = 0 THEN {<<>>}
  ELSE {<<>>} \cup {<<[type |-> "text", text |-> chunk]>> \o rest :
                      chunk \in ChunksOf(id), rest \in ContentsOf(id, n - 1)}

\* The results vectorStores.search may return
SearchResultsData ==
  UNION {{[file_id |-> id, content |-> content] :
            content \in ContentsOf(id, MaxContentParts) \ {<<>>}} : id \in FileIds}

RECURSIVE ResponsesOf(_)
ResponsesOf(n) ==
  IF n = 0 THEN {<<>>}
  ELSE {<<>>} \cup {<<result>> \o rest :
                      result \in SearchResultsData, rest \in ResponsesOf(n - 1)}

\* .filter(c => c.type === 'text').map(c => c.text).join('\n')
RECURSIVE JoinTexts(_)
JoinTexts(content) ==
  IF content = <<>> THEN <<>>
  ELSE IF Len(content) = 1 THEN content[1].text
  ELSE content[1].text \o <<"\n">> \o JoinTexts(Tail(content))

\* for (const result of searchResults.data) fileCache.set(file_id, result)
RECURSIVE CacheAll(_, _)
CacheAll(cache, data) ==
  IF data = <<>> THEN cache
  ELSE CacheAll((data[1].file_id :> data[1]) @@ cache, Tail(data))

StoreInit ==
  /\ WalkerIdle
  /\ arg = <<>>
  /\ ret = Pending
  /\ PoolIdle
  /\ ServiceIdle
  /\ DownloadIdle
  /\ fileCache = <<>>
  /\ fetched = Pending

\* search(query): the results of the response are put into the cache
Search ==
  /\ \E data \in ResponsesOf(MaxResults) : fileCache' = CacheAll(fileCache, data)
  /\ UNCHANGED <<fetched, walkerVars, callVars, poolVars, serviceVars,
                 downloadVars>>

\* fetch(documentId) with the document in the cache
FetchCached ==
  /\ \E documentId \in FileIds :
       /\ documentId \in DOMAIN fileCache
       /\ fetched' = [id |-> documentId,
                      text |-> JoinTexts(fileCache[documentId].content),
                      metadata |-> "score"]
  /\ UNCHANGED <<fileCache, walkerVars, callVars, poolVars, serviceVars,
                 downloadVars>>

\* fetch(documentId) with the document not in the cache: files.retrieve and
\* files.content give the file, or fail and the catch throws 'Fetch failed'
FetchFile ==
  /\ \E documentId \in FileIds :
       /\ documentId \notin DOMAIN fileCache
       /\ \/ fetched' = [id |-> documentId, text |-> FileText[documentId],
                         metadata |-> "file"]
          \/ fetched' = [error |-> "Fetch failed"]
  /\ UNCHANGED <<fileCache, walkerVars, callVars, poolVars, serviceVars,
                 downloadVars>>

NextStore == Search \/ FetchCached \/ FetchFile

SpecStore == StoreInit /\ [][NextStore]_vars

\* ------------------------------------------------------------------------
\* VectorStoreService.initialize, as started at module load and as awaited
\* by search, fetch and getStatus, and the execute handlers of the tools
\* search, fetch and vector_store_status. A handler runs up to its first
\* await in one step; the reads of the config file and the listing of the
\* stores end in any order.
\* ------------------------------------------------------------------------

\* Number of tool calls
MaxToolCalls == 2

sNoApiKey == "OPENAI_API_KEY environment variable is not set"
sNotConfigured ==
  "Vector store not configured. Please run tikTokDocsToVectorStore.ts first."
sSearchFailed == "Search failed: Unknown error"
sFetchFailed == "Fetch failed: Unknown error"
sConfigId == [id |-> "vs_config"]
sNamedId == [id |-> "vs_named"]

\* What is outside the program: whether OPENAI_API_KEY is set, whether
\* vector-store-config.json holds an id, whether a store of the name
\* "TikTok API Documentation" exists and whether vectorStores.list fails
Environments ==
  [apiKey : BOOLEAN, configId : BOOLEAN, namedStore : BOOLEAN,
   listFails : BOOLEAN]

ToolCalls ==
  {[name |-> "search"], [name |-> "vector_store_status"]}
    \cup {[name |-> "fetch", id |-> id] : id \in FileIds}

\* How the promise of a service method settles
Fulfilled(value) == [ok |-> TRUE, value |-> value]
Thrown(message) == [ok |-> FALSE, message |-> message]

\* How the promise of an execute handler settles: with a JSON string, spelt
\* as the value it encodes, or with an error
Returned(value) == [returned |-> value]
Rejected(message) == [rejected |-> message]

\* A search handler whose catch throws the error again
SearchExecuteRethrows(outcome) ==
  IF outcome.ok THEN Returned([results |-> outcome.value])
  ELSE Rejected(outcome.message)

SearchExecute(outcome) ==
  IF outcome.ok THEN Returned([results |-> outcome.value])
  ELSE Returned([error |-> outcome.message, results |-> <<>>])

FetchExecute(id, outcome) ==
  IF outcome.ok THEN Returned(outcome.value)
  ELSE Returned([error |-> outcome.message, id |-> id, title |-> "Error",
                 text |-> "Failed to fetch document", url |-> ""])

StatusExecute(outcome) ==
  IF outcome.ok
  THEN Returned([configured |-> outcome.value.configured,
                 store_id |-> outcome.value.storeId,
                 message |-> IF outcome.value.configured
                             THEN "Vector store is configured and ready"
                             ELSE sNotConfigured])
  ELSE Returned([configured |-> FALSE, error |-> outcome.message])

Execute(call, outcome) ==
  IF call.name = "search" THEN SearchExecute(outcome)
  ELSE IF call.name = "fetch" THEN FetchExecute(call.id, outcome)
  ELSE StatusExecute(outcome)

\* The results search builds from searchResults.data
SearchResultsOf(data) ==
  [k \in 1..Len(data) |->
     [id |-> data[k].file_id, text |-> JoinTexts(data[k].content)]]

ServiceInit ==
  /\ WalkerIdle
  /\ arg = <<>>
  /\ ret = Pending
  /\ PoolIdle
  /\ StoreIdle
  /\ DownloadIdle
  /\ environment \in Environments
  /\ openai = environment.apiKey
  /\ vectorStoreId = NULL
  /\ initPc = IF environment.apiKey THEN "readConfig" ELSE "failed"
  /\ toolCall = [name |-> "none"]
  /\ toolPc = "idle"
  /\ toolResults = <<>>

\* loadVectorStoreConfig after fs.readFile: the id of the config file, or
\* the catch that goes on to findVectorStoreByName
ConfigRead(next, onward) ==
  IF environment.configId
  THEN vectorStoreId' = sConfigId /\ next = onward
  ELSE vectorStoreId' = vectorStoreId /\ next = "listStores"

\* findVectorStoreByName after vectorStores.list: the id of the store of
\* that name; a failure of the listing is logged only
StoresListed ==
  vectorStoreId' =
    IF environment.namedStore /\ ~environment.listFails THEN sNamedId
    ELSE vectorStoreId

ModuleInitReadsConfig ==
  /\ initPc = "readConfig"
  /\ ConfigRead(initPc', "done")
  /\ UNCHANGED <<openai, environment, toolCall, toolPc, toolResults>>
  /\ UNCHANGED <<walkerVars, callVars, poolVars, storeVars, downloadVars>>

ModuleInitListsStores ==
  /\ initPc = "listStores"
  /\ StoresListed
  /\ initPc' = "done"
  /\ UNCHANGED <<openai, environment, toolCall, toolPc, toolResults>>
  /\ UNCHANGED <<walkerVars, callVars, poolVars, storeVars, downloadVars>>

\* The handler returns: the promise of the service method has settled
Finish(call, outcome) ==
  /\ toolResults' = Append(toolResults,
                           [call |-> call, outcome |-> outcome,
                            result |-> Execute(call, outcome)])
  /\ toolCall' = [name |-> "none"]
  /\ toolPc' = "idle"

\* The guard before await this.initialize()
NeedsInitialize(call) ==
  IF call.name = "vector_store_status" THEN vectorStoreId = NULL ELSE ~openai

\* The method from the statement after the guard up to its next await
Proceed(call) ==
  IF call.name = "search"
  THEN IF vectorStoreId = NULL
       THEN Finish(call, Thrown(sNotConfigured))
       ELSE toolCall' = call /\ toolPc' = "request" /\ UNCHANGED toolResults
  ELSE IF call.name = "fetch"
  THEN IF call.id \in DOMAIN fileCache
       THEN Finish(call, Fulfilled([id |-> call.id,
                                    text |-> JoinTexts(fileCache[call.id].content)]))
       ELSE toolCall' = call /\ toolPc' = "request" /\ UNCHANGED toolResults
  ELSE Finish(call, Fulfilled([configured |-> vectorStoreId # NULL,
                               storeId |-> vectorStoreId]))

\* A tool is called: the handler and the service method run to the first
\* await
CallTool ==
  /\ toolPc = "idle"
  /\ Len(toolResults) < MaxToolCalls
  /\ \E call \in ToolCalls :
       IF NeedsInitialize(call)
       THEN IF environment.apiKey
            THEN /\ openai' = TRUE
                 /\ toolCall' = call
                 /\ toolPc' = "readConfig"
                 /\ UNCHANGED toolResults
            ELSE /\ Finish(call, Thrown(sNoApiKey))
                 /\ UNCHANGED openai
       ELSE Proceed(call) /\ UNCHANGED openai
  /\ UNCHANGED <<vectorStoreId, environment, initPc>>
  /\ UNCHANGED <<walkerVars, callVars, poolVars, storeVars, downloadVars>>

ToolReadsConfig ==
  /\ toolPc = "readConfig"
  /\ ConfigRead(toolPc', "afterInit")
  /\ UNCHANGED <<openai, environment, initPc, toolCall, toolResults>>
  /\ UNCHANGED <<walkerVars, callVars, poolVars, storeVars, downloadVars>>

ToolListsStores ==
  /\ toolPc = "listStores"
  /\ StoresListed
  /\ toolPc' = "afterInit"
  /\ UNCHANGED <<openai, environment, initPc, toolCall, toolResults>>
  /\ UNCHANGED <<walkerVars, callVars, poolVars, storeVars, downloadVars>>

\* await this.initialize() ends
ToolProceeds ==
  /\ toolPc = "afterInit"
  /\ Proceed(toolCall)
  /\ UNCHANGED <<openai, vectorStoreId, environment, initPc>>
  /\ UNCHANGED <<walkerVars, callVars, poolVars, storeVars, downloadVars>>

\* The request to the service API ends: vectorStores.search for search,
\* files.retrieve and files.content for fetch
ToolRequestEnds ==
  /\ toolPc = "request"
  /\ \/ /\ toolCall.name = "search"
        /\ \E data \in ResponsesOf(1) :
             /\ fileCache' = CacheAll(fileCache, data)
             /\ Finish(toolCall, Fulfilled(SearchResultsOf(data)))
     \/ /\ toolCall.name = "search"
        /\ Finish(toolCall, Thrown(sSearchFailed))
        /\ UNCHANGED fileCache
     \/ /\ toolCall.name = "fetch"
        /\ Finish(toolCall, Fulfilled([id |-> toolCall.id,
                                       text |-> FileText[toolCall.id]]))
        /\ UNCHANGED fileCache
     \/ /\ toolCall.name = "fetch"
        /\ Finish(toolCall, Thrown(sFetchFailed))
        /\ UNCHANGED fileCache
  /\ UNCHANGED <<fetched, openai, vectorStoreId, environment, initPc>>
  /\ UNCHANGED <<walkerVars, callVars, poolVars, downloadVars>>

NextService ==
  \/ ModuleInitReadsConfig
  \/ ModuleInitListsStores
  \/ CallTool
  \/ ToolReadsConfig
  \/ ToolListsStores
  \/ ToolProceeds
  \/ ToolRequestEnds

SpecService == ServiceInit /\ [][NextService]_vars

\* ------------------------------------------------------------------------
\* downloadDocs: fetchDocTree, ensureDir, processDocNode for each top-level
\* node and, inside it, for each child, then the README and the manifest.
\* The awaits are sequential, so the nodes are processed in pre-order and an
\* error thrown anywhere arrives in the catch of downloadDocs. The tree and
\* the answer of the API for each document are the environment.
\* ------------------------------------------------------------------------

\* Number of nodes of the document tree
MaxDocs == 3

\* What the node/get request of a MARKDOWN node meets: a response with code
\* 0, a rejected fetch, a body that is not JSON, a response with another code
DocResponses == {"ok", "network", "unparsable", "apiCode"}

NodeKinds ==
  {[type |-> "FOLDER", response |-> "none"]}
    \cup {[type |-> "MARKDOWN", response |-> r] : r \in DocResponses}

\* The trees of n nodes in pre-order: the depth of a node is at most one
\* more than the depth of the node before it
RECURSIVE TreesOf(_)
TreesOf(n) ==
  IF n = 0 THEN {<<>>}
  ELSE LET shorter == TreesOf(n - 1)
       IN  shorter \cup
           {Append(tree, [depth |-> d, type |-> kind.type,
                          response |-> kind.response]) :
              tree \in {t \in shorter : Len(t) = n - 1},
              d \in 0..(n - 1), kind \in NodeKinds}

DocTrees ==
  {tree \in TreesOf(MaxDocs) :
     \A k \in 1..Len(tree) :
       tree[k].depth <= (IF k = 1 THEN 0 ELSE tree[k - 1].depth + 1)}

\* node.child_docs && node.child_docs.length > 0
HasChildDocs(k) == k < Len(docTree) /\ docTree[k + 1].depth > docTree[k].depth

\* The error the try block of fetchDocContent throws for a response
ErrorOf(response) ==
  IF response = "network" THEN "TypeError: fetch failed"
  ELSE IF response = "unparsable" THEN "SyntaxError: Unexpected token"
  ELSE "Error: API returned error for doc"

\* A fetchDocContent whose catch throws the error again
fetchDocContentRethrows(docId, response) ==
  IF response = "ok"
  THEN [code |-> 0, msg |-> "OK",
        data |-> [title |-> <<"Title of doc", docId>>,
                  content |-> <<"Content of doc", docId>>]]
  ELSE [rejected |-> ErrorOf(response)]

fetchDocContent(docId, response) ==
  IF response = "ok"
  THEN [code |-> 0, msg |-> "OK",
        data |-> [title |-> <<"Title of doc", docId>>,
                  content |-> <<"Content of doc", docId>>]]
  ELSE [code |-> 0, msg |-> "error",
        data |-> [title |-> <<"Error loading doc", docId>>,
                  content |-> <<"Failed to load content", ErrorOf(response)>>]]

DownloadInit ==
  /\ WalkerIdle
  /\ arg = <<>>
  /\ ret = Pending
  /\ PoolIdle
  /\ StoreIdle
  /\ ServiceIdle
  /\ docTree \in DocTrees
  /\ docIndex = 0
  /\ downloadPc = "tree"
  /\ docContent = Pending
  /\ savedFiles = <<>>

\* await fetchDocTree(...): the tree, or the error thrown again by its catch
FetchDocTree ==
  /\ downloadPc = "tree"
  /\ downloadPc' \in {"outputDir", "failed"}
  /\ UNCHANGED <<docTree, docIndex, docContent, savedFiles>>
  /\ UNCHANGED <<walkerVars, callVars, poolVars, storeVars, serviceVars>>

\* The call of processDocNode for the node after k in pre-order, or the
\* end of the for loops
NodeAfter(k) ==
  IF k < Len(docTree)
  THEN docIndex' = k + 1 /\ downloadPc' = "node"
  ELSE docIndex' = k /\ downloadPc' = "readme"

\* await ensureDir(outputDir)
EnsureOutputDir ==
  /\ downloadPc = "outputDir"
  /\ \/ NodeAfter(0)
     \/ downloadPc' = "failed" /\ UNCHANGED docIndex
  /\ UNCHANGED <<docTree, docContent, savedFiles>>
  /\ UNCHANGED <<walkerVars, callVars, poolVars, storeVars, serviceVars>>

\* processDocNode from its entry to the await of fetchDocContent: ensureDir
\* for a node with children, which may throw; a node that is not MARKDOWN
\* goes on to its children
EnterNode ==
  /\ downloadPc = "node"
  /\ \/ IF docTree[docIndex].type = "MARKDOWN"
        THEN downloadPc' = "fetch" /\ UNCHANGED docIndex
        ELSE NodeAfter(docIndex)
     \/ /\ HasChildDocs(docIndex)
        /\ downloadPc' = "failed"
        /\ UNCHANGED docIndex
  /\ UNCHANGED <<docTree, docContent, savedFiles>>
  /\ UNCHANGED <<walkerVars, callVars, poolVars, storeVars, serviceVars>>

\* await fetchDocContent(node.doc_id, ...)
FetchDocContent ==
  /\ downloadPc = "fetch"
  /\ LET settled == fetchDocContent(docIndex, docTree[docIndex].response)
     IN  IF "rejected" \in DOMAIN settled
         THEN downloadPc' = "failed" /\ UNCHANGED docContent
         ELSE downloadPc' = "write" /\ docContent' = settled
  /\ UNCHANGED <<docTree, docIndex, savedFiles>>
  /\ UNCHANGED <<walkerVars, callVars, poolVars, storeVars, serviceVars>>

\* await fs.writeFile(filePath, fileContent): the file is written and the
\* children and the siblings follow, or the write throws
WriteFile ==
  /\ downloadPc = "write"
  /\ \/ /\ savedFiles' = Append(savedFiles,
                                [doc_id |-> docIndex,
                                 title |-> docContent.data.title,
                                 content |-> docContent.data.content])
        /\ NodeAfter(docIndex)
     \/ downloadPc' = "failed" /\ UNCHANGED <<docIndex, savedFiles>>
  /\ UNCHANGED <<docTree, docContent>>
  /\ UNCHANGED <<walkerVars, callVars, poolVars, storeVars, serviceVars>>

\* The README and the manifest are written, or a write throws
WriteReadme ==
  /\ downloadPc = "readme"
  /\ downloadPc' \in {"done", "failed"}
  /\ UNCHANGED <<docTree, docIndex, docContent, savedFiles>>
  /\ UNCHANGED <<walkerVars, callVars, poolVars, storeVars, serviceVars>>

NextDownload ==
  \/ FetchDocTree
  \/ EnsureOutputDir
  \/ EnterNode
  \/ FetchDocContent
  \/ WriteFile
  \/ WriteReadme

SpecDownload == DownloadInit /\ [][NextDownload]_vars

\* ------------------------------------------------------------------------
\* C1: for the document "# C", "## S" and one table block with the header
\* "Field | Type | Description", a separator, a metric row, the line "#L"
\* and a second metric row, the walker returns exactly two metrics, in row
\* order, both with category C and subcategory exactly S.
\* ------------------------------------------------------------------------
EndToEndDocument ==
  <<lineCategoryC, lineSubcategoryS>>
    \o TableBlock(<<rowMetricA, rowHashLabel, rowMetricB>>)

C1_EndToEndTwoMetricsUnderS ==
  (pc = "done" /\ lines = EndToEndDocument) =>
    /\ Len(metrics) = 2
    /\ metrics[1].name = sNameA
    /\ metrics[2].name = sNameB
    /\ \A k \in 1..2 : metrics[k].category = sC /\ metrics[k].subcategory = sS

\* ------------------------------------------------------------------------
\* C2: a table data line whose first character is "#" yields no metric,
\* whatever cells follow it on the line.
\* ------------------------------------------------------------------------
C2_HashLineYieldsNoMetric ==
  [][(RowStep /\ StartsWith(DataLines[rowIndex + 1], <<"#">>)) => metrics' = metrics]_vars

\* ------------------------------------------------------------------------
\* C3 as stated: a row with a non-empty field value and an empty type value
\* adds no metric and becomes the inline header; the inline header changes
\* only at a heading line or at such a row; every metric emitted while an
\* inline header is set carries it at the end of its subcategory.
\* ------------------------------------------------------------------------
InlineHeaderPersists ==
  (~HeadingStep /\ ~(RowStep /\ FieldValue # <<>> /\ TypeValue = <<>>))
    => currentInlineHeader' = currentInlineHeader

InlineHeaderCarried ==
  (Emits /\ currentInlineHeader # <<>>)
    => \/ Emitted.subcategory = currentInlineHeader
       \/ EndsWith(Emitted.subcategory, sDash \o currentInlineHeader)

C3_EmptyTypeRowIsInlineHeader ==
  [][/\ (RowStep /\ FieldValue # <<>> /\ TypeValue = <<>>)
          => (metrics' = metrics /\ currentInlineHeader' = FieldValue)
     /\ InlineHeaderPersists
     /\ InlineHeaderCarried]_vars

\* C3 as amended: the same for a row whose non-empty field value does not
\* start with "#"; a row whose field value starts with "#" adds no metric
\* and leaves the inline header as it is.
C3_InlineHeaderRow ==
  [][/\ (RowStep /\ FieldValue # <<>> /\ TypeValue = <<>>)
          => /\ metrics' = metrics
             /\ currentInlineHeader' =
                  IF StartsWith(FieldValue, <<"#">>) THEN currentInlineHeader
                  ELSE FieldValue
     /\ InlineHeaderPersists
     /\ InlineHeaderCarried]_vars

\* An inline header set in one table block is carried by a metric of a
\* later table block
C3_Witness ==
  /\ pc = "done"
  /\ lines = TableBlock(<<rowInlineK>>) \o TableBlock(<<rowMetricA>>)
  /\ Len(metrics) = 1
  /\ metrics[1].subcategory = <<"K">>

\* ------------------------------------------------------------------------
\* C4: a heading line resets every context level below it before the next
\* table row is processed: "# " sets the subcategory to General and clears
\* the sub-subcategory and the inline header, "## " clears the
\* sub-subcategory and the inline header, "### " clears the inline header;
\* no step other than a heading line or an inline-header row changes these
\* levels, and a metric emitted while they are still as "# " left them has
\* subcategory exactly General.
\* ------------------------------------------------------------------------
ScansLine(prefix) == pc = "scan" /\ i < Len(lines) /\ StartsWith(lines[i + 1], prefix)

LowerLevelsKept ==
  (~HeadingStep /\ ~(RowStep /\ FieldValue # <<>> /\ TypeValue = <<>>))
    => UNCHANGED <<currentSubcategory, currentSubSubcategory, currentInlineHeader>>

C4_HeadingResetsLowerLevels ==
  [][/\ ScansLine(sH1) =>
          /\ currentSubcategory' = sGeneral
          /\ currentSubSubcategory' = <<>>
          /\ currentInlineHeader' = <<>>
     /\ ScansLine(sH2) =>
          /\ currentSubSubcategory' = <<>>
          /\ currentInlineHeader' = <<>>
     /\ ScansLine(sH3) => currentInlineHeader' = <<>>
     /\ LowerLevelsKept
     /\ (/\ Emits
         /\ currentSubcategory = sGeneral
         /\ currentSubSubcategory = <<>>
         /\ currentInlineHeader = <<>>) => Emitted.subcategory = sGeneral]_vars

\* A metric under an inline header, then "# C", then a metric with
\* subcategory General
C4_Witness ==
  /\ pc = "done"
  /\ lines = TableBlock(<<rowInlineH, rowMetricA>>) \o <<lineCategoryC>>
               \o TableBlock(<<rowMetricA>>)
  /\ Len(metrics) = 2
  /\ metrics[1].subcategory = sH
  /\ metrics[2].category = sC
  /\ metrics[2].subcategory = sGeneral

\* ------------------------------------------------------------------------
\* C5: the subcategory of every emitted metric is the current subcategory,
\* followed by " - " and the sub-subcategory when that is non-empty,
\* followed by " - " and the inline header when that is non-empty, except
\* that the inline header replaces a value that is exactly General.
\* ------------------------------------------------------------------------
ComposedSubcategory ==
  CASE currentSubSubcategory = <<>> /\ currentInlineHeader = <<>> ->
         currentSubcategory
    [] currentSubSubcategory # <<>> /\ currentInlineHeader = <<>> ->
         currentSubcategory \o sDash \o currentSubSubcategory
    [] currentSubSubcategory = <<>> /\ currentInlineHeader # <<>> ->
         IF currentSubcategory = sGeneral THEN currentInlineHeader
         ELSE currentSubcategory \o sDash \o currentInlineHeader
    [] currentSubSubcategory # <<>> /\ currentInlineHeader # <<>> ->
         currentSubcategory \o sDash \o currentSubSubcategory \o sDash
           \o currentInlineHeader

C5_SubcategoryComposition ==
  [][Emits => Emitted.subcategory = ComposedSubcategory]_vars

\* All three levels set, and a default subcategory replaced outright
C5_Witness ==
  \/ /\ pc = "done"
     /\ lines = <<lineSubcategoryS, lineSubSubcategoryT>>
                  \o TableBlock(<<rowInlineH, rowMetricA>>)
     /\ metrics[1].subcategory = sS \o sDash \o sT \o sDash \o sH
  \/ /\ pc = "done"
     /\ lines = TableBlock(<<rowInlineH, rowMetricA>>)
     /\ metrics[1].subcategory = sH

\* ------------------------------------------------------------------------
\* C6: the category of every emitted metric is the trimmed text of the
\* nearest preceding line that starts with "# " and lies outside any table
\* block, and General when there is none.
\* ------------------------------------------------------------------------

\* The category in force before line number n (1-based) of ls, read off the
\* document: table blocks run from a line containing the xtable fence to the
\* next line containing a fence
RECURSIVE CategoryBefore(_, _, _, _, _)
CategoryBefore(ls, n, k, inTable, category) ==
  IF k >= n THEN category
  ELSE IF inTable
       THEN CategoryBefore(ls, n, k + 1, ~Includes(ls[k], sFence), category)
  ELSE IF StartsWith(ls[k], sH1)
       THEN CategoryBefore(ls, n, k + 1, FALSE, Trim(SubSeq(ls[k], 3, Len(ls[k]))))
  ELSE IF StartsWith(ls[k], <<"#", "#">>)
       THEN CategoryBefore(ls, n, k + 1, FALSE, category)
  ELSE CategoryBefore(ls, n, k + 1, Includes(ls[k], sXTable), category)

NearestCategory == CategoryBefore(lines, i + 1, 1, FALSE, sGeneral)

C6_CategoryIsNearestHeading ==
  [][Emits => Emitted.category = NearestCategory]_vars

\* Two category headings: the later one wins and is trimmed; a line "# E"
\* inside a table block does not count
C6_Witness ==
  \/ /\ pc = "done"
     /\ lines = <<lineCategoryC, lineCategoryD>> \o TableBlock(<<rowMetricA>>)
     /\ metrics[1].category = sD
  \/ /\ pc = "done"
     /\ lines = <<lineCategoryC>> \o TableBlock(<<rowHeadingLike, rowMetricA>>)
     /\ metrics[1].category = sC

\* ------------------------------------------------------------------------
\* C7: extractMetricFromRow returns null when no header matches the field
\* column, or the row has no cell at the field column, or the field cell
\* starts with "#", or the field cell is empty, or the row has fewer than 3
\* cells, and a Metric in every other case; a row whose field cell is
\* "#Notes" is rejected whatever the other cells hold.
\* ------------------------------------------------------------------------
MetricFields ==
  {"name", "category", "subcategory", "type", "description", "commentary",
   "deprecationStatus"}

MustBeRejected(row, hs) ==
  \/ HeaderPosition(hs, sField) = {}
  \/ \E k \in HeaderPosition(hs, sField) :
       \/ Len(row) < k
       \/ row[k] = <<>>
       \/ Head(row[k]) = "#"
  \/ Len(row) < 3

C7_RejectedRows ==
  pc = "returned" =>
    /\ MustBeRejected(arg.row, arg.headers) => ret = NULL
    /\ ~MustBeRejected(arg.row, arg.headers) =>
         /\ DOMAIN ret = MetricFields
         /\ ret.category = arg.category
         /\ ret.subcategory = arg.subcategory
    /\ CellUnder(arg.row, arg.headers, sField) = cellNotes => ret = NULL

C7_Witness ==
  /\ pc = "returned"
  /\ arg.row = <<cellNotes, cellN, cellA>>
  /\ arg.headers = headersStandard
  /\ ret = NULL

\* ------------------------------------------------------------------------
\* C8: when the name contains "{-To be deprecated}" in any letter case and
\* at any position, the status is to_be_deprecated and cleanName is the
\* name with that marker removed and then trimmed; otherwise when it
\* contains "{-deprecated}", the status is deprecated and cleanName is the
\* name with that marker removed and then trimmed; otherwise the status is
\* active.  With both markers the to-be-deprecated one decides.
\* ------------------------------------------------------------------------
markerToBeDeprecated ==
  <<"{", "-", "t", "o", " ", "b", "e", " ", "d", "e", "p", "r", "e", "c",
    "a", "t", "e", "d", "}">>
markerDeprecated ==
  <<"{", "-", "d", "e", "p", "r", "e", "c", "a", "t", "e", "d", "}">>

\* The ways of cutting an occurrence of the marker, in any letter case, out
\* of s, each trimmed
WithMarkerRemoved(s, marker) ==
  {Trim(SubSeq(s, 1, k) \o SubSeq(s, k + Len(marker) + 1, Len(s))) :
     k \in {j \in 0..(Len(s) - Len(marker)) :
              ToLowerCase(SubSeq(s, j + 1, j + Len(marker))) = marker}}

C8_DeprecationStatus ==
  pc = "returned" =>
    IF WithMarkerRemoved(arg, markerToBeDeprecated) # {}
    THEN /\ ret.status = "to_be_deprecated"
         /\ ret.cleanName \in WithMarkerRemoved(arg, markerToBeDeprecated)
    ELSE IF WithMarkerRemoved(arg, markerDeprecated) # {}
    THEN /\ ret.status = "deprecated"
         /\ ret.cleanName \in WithMarkerRemoved(arg, markerDeprecated)
    ELSE ret.status = "active"

\* Both markers present, the to-be-deprecated one in another letter case
C8_Witness ==
  /\ pc = "returned"
  /\ arg = nameA \o nameDeprecated \o nameToBeDeprecatedMixed
  /\ ret = [cleanName |-> nameA \o nameDeprecated, status |-> "to_be_deprecated"]

C10_MetricNameNonEmpty ==
  (pc = "returned" /\ ret # NULL) => ret.name # <<>>

\* ------------------------------------------------------------------------
\* C11: parseXTable called on an empty table block (a text with no
\* non-blank line) returns the empty table, with no headers and no rows,
\* and does not raise.
\* ------------------------------------------------------------------------
HasNoNonBlankLine(text) ==
  \A k \in 1..Len(Split(text, "\n")) : Trim(Split(text, "\n")[k]) = <<>>

MetricNames == [k \in 1..Len(metrics) |-> metrics[k].name]

\* The first cells of the lines of the document that are among rowLines,
\* in document order
FirstCellsOf(rowLines) ==
  LET found == SelectSeq(lines, LAMBDA line : line \in rowLines)
  IN  [k \in 1..Len(found) |-> Trim(Split(found[k], "|")[1])]

\* As claimed: only the rows as long as the header list give a metric
C12_IrregularInputIsSkipped ==
  /\ pc # "raised"
  /\ pc = "done" => MetricNames = FirstCellsOf({rowMetricA})

\* Amended: the row longer than the header list gives a metric as well,
\* the one of fewer than three cells gives none
C12_IrregularInputNeverRaises ==
  /\ pc # "raised"
  /\ pc = "done" => MetricNames = FirstCellsOf({rowMetricA, rowLong})

C12_Witness ==
  /\ pc = "done"
  /\ lines = <<sXTable, lineBlank, sFence>>
               \o TableBlock(<<rowShort, rowLong>>)
               \o TableBlock(<<rowMetricA>>)
  /\ MetricNames = << <<"e">>, <<"a">> >>

\* ------------------------------------------------------------------------
\* C13: in a metric returned by extractMetricFromRow, a type, description
\* or detail column that is missing from the headers, lies beyond the end
\* of the row or holds an empty cell gives the type 'string', the
\* description '' and the commentary ''; otherwise the cell is taken as it
\* is. An index beyond the row never fails.
\* ------------------------------------------------------------------------
C13_MissingCellsGetDefaults ==
  (pc = "returned" /\ ret # NULL) =>
    LET typeCell == CellUnder(arg.row, arg.headers, sType)
    IN  /\ ret.type = IF typeCell = <<>> THEN <<"s", "t", "r", "i", "n", "g">> ELSE typeCell
        /\ ret.description = CellUnder(arg.row, arg.headers, sDescription)
        /\ ret.commentary = CellUnder(arg.row, arg.headers, sDetail)

\* The type cell is empty, no header names a description and the detail
\* column lies beyond the end of the row
C13_Witness ==
  /\ pc = "returned"
  /\ arg.headers = headersSubtype
  /\ arg.row = <<cellA, <<>>, cellN>>
  /\ ret # NULL
  /\ ret.type = <<"s", "t", "r", "i", "n", "g">>
  /\ ret.description = <<>>
  /\ ret.commentary = <<>>

\* ------------------------------------------------------------------------
\* C14: the output lists the metrics in source order and keeps duplicates:
\* a step of the walker either leaves the output as it is or appends one
\* metric at its end, and it appends exactly when it is the callback on a
\* row that is no inline-header row and for which extractMetricFromRow
\* returns a metric (that metric is the one appended); so the output length
\* is the number of such rows.
\* ------------------------------------------------------------------------
ExtractedFromCurrentRow ==
  extractMetricFromRow(CurrentRow, headers, currentCategory,
                       EffectiveSubcategory(currentSubcategory,
                                            currentSubSubcategory,
                                            currentInlineHeader))

ReachesExtraction ==
  /\ RowStep
  /\ ~(FieldValue # <<>> /\ TypeValue = <<>> /\ FieldValue[1] # "#")

C14_OutputInSourceOrder ==
  [][IF ReachesExtraction /\ ExtractedFromCurrentRow # NULL
     THEN Emits /\ Emitted = ExtractedFromCurrentRow
     ELSE metrics' = metrics]_vars

\* Two tables with the same row under the same headings: the metric is
\* there twice
C14_Witness ==
  /\ pc = "done"
  /\ Len(metrics) = 2
  /\ metrics[1] = metrics[2]

\* ------------------------------------------------------------------------
\* C15: every call of processMarkdownContent starts from the category
\* General, the subcategory General, no sub-subcategory, no inline header
\* and an empty output, and the metrics returned for a document are the
\* same whichever documents were processed before it: no context and no
\* metric of one call shows in another.
\* ------------------------------------------------------------------------
C15_CallsAreIndependent ==
  /\ (pc = "scan" /\ i = 0) =>
       /\ currentCategory = sGeneral
       /\ currentSubcategory = sGeneral
       /\ currentSubSubcategory = <<>>
       /\ currentInlineHeader = <<>>
       /\ metrics = <<>>
  /\ pc = "done" =>
       \A k \in 1..Len(ret) : ret[k].content = lines => ret[k].metrics = metrics
  /\ \A j, k \in 1..Len(ret) :
       ret[j].content = ret[k].content => ret[j].metrics = ret[k].metrics

\* The same document processed first and again after a document that left
\* a category, a subcategory, a sub-subcategory and an inline header
C15_Witness ==
  /\ pc = "done"
  /\ Len(ret) = 2
  /\ ret[1].content = TableBlock(<<rowMetricA>>)
  /\ ret[2].metrics # <<>>
  /\ ret[2].metrics[1].category = sC
  /\ ret[2].metrics[1].subcategory # sGeneral
  /\ lines = ret[1].content
  /\ metrics = ret[1].metrics

\* ------------------------------------------------------------------------
\* C16: groupMetrics partitions its input by category and then by
\* subcategory: every input metric is in the result exactly once (as often
\* as it is in the input), in the list stored under its own category and
\* subcategory; no list of the result is empty; the sizes of the lists sum
\* to the length of the input.
\* ------------------------------------------------------------------------
Occurrences(list, metric) == Cardinality({k \in 1..Len(list) : list[k] = metric})

GroupKeys(grouped) ==
  {key \in (DOMAIN grouped) \X (UNION {DOMAIN grouped[c] : c \in DOMAIN grouped}) :
     key[2] \in DOMAIN grouped[key[1]]}

RECURSIVE SizesSum(_, _)
SizesSum(grouped, keys) ==
  IF keys = {} THEN 0
  ELSE LET key == CHOOSE x \in keys : TRUE
       IN  Len(grouped[key[1]][key[2]]) + SizesSum(grouped, keys \ {key})

C16_GroupingIsPartition ==
  pc = "returned" =>
    /\ ret # TypeError
    /\ \A k \in 1..Len(arg) :
         /\ <<arg[k].category, arg[k].subcategory>> \in GroupKeys(ret)
         /\ Occurrences(ret[arg[k].category][arg[k].subcategory], arg[k])
              = Occurrences(arg, arg[k])
    /\ \A key \in GroupKeys(ret) :
         /\ ret[key[1]][key[2]] # <<>>
         /\ \A k \in 1..Len(ret[key[1]][key[2]]) :
              /\ ret[key[1]][key[2]][k].category = key[1]
              /\ ret[key[1]][key[2]][k].subcategory = key[2]
    /\ SizesSum(ret, GroupKeys(ret)) = Len(arg)

\* ------------------------------------------------------------------------
\* C17: while processDocsWithConcurrency runs, the number of processDocNode
\* tasks that have been started and have not settled never exceeds
\* maxConcurrent.
\* ------------------------------------------------------------------------
RunningTasks == {t \in DOMAIN taskState : taskState[t] = "pending"}

C17_AtMostMaxConcurrentRunning ==
  poolPc \in {"fill", "racing", "sweep"} =>
    Cardinality(RunningTasks) <= maxConcurrent

\* ------------------------------------------------------------------------
\* C18: what VectorStoreService.fetch(id) returns holds the full text of
\* the document file id, whether or not id is in the cache of search
\* results.
\* ------------------------------------------------------------------------
C18_FetchReturnsFullText ==
  (fetched # Pending /\ fetched # [error |-> "Fetch failed"]) =>
    fetched.text = FileText[fetched.id]

\* ------------------------------------------------------------------------
\* C19: for each of the fragments 'field', 'type', 'description' and
\* 'detail' the column is the first header, from left to right, whose
\* lower-cased text contains the fragment, and -1 when there is none (so
\* 'Subtype' is the type column when it stands before the other headers
\* containing 'type'); the columns depend on the header list only, and the
\* returned metric takes its type from the column resolved for 'type'.
\* ------------------------------------------------------------------------
RECURSIVE FirstContaining(_, _, _)
FirstContaining(hs, k, fragment) ==
  IF k > Len(hs) THEN -1
  ELSE IF Includes(ToLowerCase(hs[k]), fragment) THEN k - 1
  ELSE FirstContaining(hs, k + 1, fragment)

C19_ColumnIsFirstMatchingHeader ==
  pc = "returned" =>
    /\ FieldIndex(arg.headers) = FirstContaining(arg.headers, 1, sField)
    /\ TypeIndex(arg.headers) = FirstContaining(arg.headers, 1, sType)
    /\ DescIndex(arg.headers) = FirstContaining(arg.headers, 1, sDescription)
    /\ DetailIndex(arg.headers) = FirstContaining(arg.headers, 1, sDetail)
    /\ FirstContaining(arg.headers, 1, sField) = -1 => ret = NULL
    /\ (/\ ret # NULL
        /\ FirstContaining(arg.headers, 1, sType) \in 0..(Len(arg.row) - 1)
        /\ arg.row[FirstContaining(arg.headers, 1, sType) + 1] # <<>>)
         => ret.type = arg.row[FirstContaining(arg.headers, 1, sType) + 1]

\* Under Field, Subtype, Type, Details the type is the cell under Subtype
C19_Witness ==
  /\ pc = "returned"
  /\ arg.headers = headersSubtype
  /\ arg.row = <<cellA, cellN, cellA>>
  /\ ret # NULL
  /\ ret.type = cellN

\* ------------------------------------------------------------------------
\* C20: no step resets a level above its own: a "## " line leaves the
\* category as it is, a "### " line leaves the category and the
\* subcategory as they are, and the callback on a row (an inline-header row
\* or a metric row) leaves the category, the subcategory and the
\* sub-subcategory as they are.
\* ------------------------------------------------------------------------
C20_UpperLevelsKept ==
  [][/\ ScansLine(sH2) => currentCategory' = currentCategory
     /\ ScansLine(sH3) =>
          /\ currentCategory' = currentCategory
          /\ currentSubcategory' = currentSubcategory
     /\ RowStep =>
          /\ currentCategory' = currentCategory
          /\ currentSubcategory' = currentSubcategory
          /\ currentSubSubcategory' = currentSubSubcategory]_vars

\* "## S", "### T" and a table with an inline-header row and a metric row:
\* the subcategory has outlived the "### " line and both rows, the
\* sub-subcategory both rows
C20_Witness ==
  /\ pc = "done"
  /\ lines = <<lineSubcategoryS, lineSubSubcategoryT>>
               \o TableBlock(<<rowInlineH, rowMetricA>>)
  /\ currentCategory = sGeneral
  /\ currentSubcategory = sS
  /\ currentSubSubcategory = sT
  /\ currentInlineHeader = sH
  /\ Len(metrics) = 1

\* ------------------------------------------------------------------------
\* C21: once a line containing the xtable fence opens a table block, every
\* following line up to the next line containing a fence is table text and
\* is never scanned as a heading or as an opener; the closing fence line is
\* not scanned either and scanning resumes after it; a block with no
\* closing fence runs to the end of the document and its rows are
\* processed.
\* ------------------------------------------------------------------------

\* Line number n (1-based) of ls lies inside a table block, its closing
\* fence included, as read off the document
RECURSIVE InTableAt(_, _)
InTableAt(ls, n) ==
  IF n <= 1 THEN FALSE
  ELSE IF InTableAt(ls, n - 1) THEN ~Includes(ls[n - 1], sFence)
  ELSE /\ ~StartsWith(ls[n - 1], sH1)
       /\ ~StartsWith(ls[n - 1], sH2)
       /\ ~StartsWith(ls[n - 1], sH3)
       /\ Includes(ls[n - 1], sXTable)

\* The text of the block lines from the opener to line number n
RECURSIVE TableTextUpTo(_, _)
TableTextUpTo(ls, n) ==
  IF ~InTableAt(ls, n) THEN <<>>
  ELSE TableTextUpTo(ls, n - 1) \o ls[n] \o <<"\n">>

C21_BlockLinesAreTableText ==
  /\ (pc = "scan" /\ i < Len(lines)) => ~InTableAt(lines, i + 1)
  /\ (pc = "collect" /\ i < Len(lines)) => InTableAt(lines, i + 1)
  /\ pc \in {"collect", "rows"} => tableContent = TableTextUpTo(lines, i)
  /\ pc = "rows" => (i = Len(lines) \/ Includes(lines[i + 1], sFence))
  /\ (pc = "done" /\ lines = <<lineCategoryC>> \o UnclosedBlock(<<rowMetricA>>)) =>
       (Len(metrics) = 1 /\ metrics[1].name = sNameA /\ metrics[1].category = sC)

\* A block with a heading-like line, closed by a line holding the opening
\* fence, and then a block that is never closed: one metric from each
C21_Witness ==
  /\ pc = "done"
  /\ lines = <<sXTable, lineHeader, lineSeparator, rowMetricA, sXTable>>
               \o <<lineCategoryC>> \o UnclosedBlock(<<rowMetricA>>)
  /\ Len(metrics) = 2
  /\ metrics[1].category = sGeneral
  /\ metrics[2].category = sC

\* ------------------------------------------------------------------------
\* C22: in parseXTable the second non-blank line never gives a row, whatever
\* it holds; the headers come from the first non-blank line only; every
\* later non-blank line gives exactly one row, in source order.
\* ------------------------------------------------------------------------

\* The non-blank lines of a text
NonBlankLinesOf(text) == SelectSeq(Split(text, "\n"), NonBlank)

\* The lines joined again, each followed by a line break
RECURSIVE JoinLines(_)
JoinLines(ls) ==
  IF ls = <<>> THEN <<>> ELSE Head(ls) \o <<"\n">> \o JoinLines(Tail(ls))

\* The text whose non-blank lines are those of text with the second one
\* replaced by other
WithSecondLine(text, other) ==
  LET nb == NonBlankLinesOf(text)
  IN  JoinLines([k \in 1..Len(nb) |-> IF k = 2 THEN other ELSE nb[k]])

C22_SecondLineGivesNoRow ==
  (pc = "returned" /\ ret # TypeError) =>
    LET nb == NonBlankLinesOf(arg)
    IN  /\ Len(ret.rows) = (IF Len(nb) > 2 THEN Len(nb) - 2 ELSE 0)
        /\ \A k \in 1..Len(ret.rows) :
             LET segments == SelectSeq(Split(StripLeadingHash(nb[k + 2]), "|"),
                                       NonEmpty)
             IN  ret.rows[k] = [c \in 1..Len(segments) |-> Trim(segments[c])]
        /\ ret.headers = parseXTable(nb[1]).headers
        /\ Len(nb) >= 2 =>
             \A other \in {line \in TableLines : NonBlank(line)} :
               parseXTable(WithSecondLine(arg, other)) = ret

\* A data-like line in second place is dropped and the line after it is the
\* only row
C22_Witness ==
  /\ pc = "returned"
  /\ arg = JoinLines(<<lineHeader, rowMetricA, rowHashMetric>>)
  /\ ret # TypeError
  /\ Len(ret.rows) = 1
  /\ ret.rows[1][1] = <<"x">>

\* ------------------------------------------------------------------------
\* C23: headers and rows share one index space: for a header line and a
\* data line with the same number of "|" separators, cell k of the parsed
\* row is the text of the column whose header is headers[k].
\* ------------------------------------------------------------------------

\* The positions of the segments of a header line that give a header
ColumnPositions(segments) ==
  SelectSeq([p \in 1..Len(segments) |-> p],
            LAMBDA p : Trim(segments[p]) # <<>>)

C23_CellsAlignWithHeaders ==
  (pc = "returned" /\ ret # TypeError) =>
    LET nb == NonBlankLinesOf(arg)
        headerSegments == Split(nb[1], "|")
        columns == ColumnPositions(headerSegments)
    IN  \A k \in 1..Len(ret.rows) :
          LET rowSegments == Split(StripLeadingHash(nb[k + 2]), "|")
          IN  Len(rowSegments) = Len(headerSegments) =>
                \A j \in 1..Len(ret.headers) :
                  /\ j <= Len(ret.rows[k])
                  /\ ret.rows[k][j] = Trim(rowSegments[columns[j]])

\* ------------------------------------------------------------------------
\* C24: every metric of the output comes from a row with at least 3 cells,
\* a non-empty field cell that does not start with "#" and a non-empty type
\* cell, and its type is that cell; a table whose headers name no type
\* column gives no metric, and each of its rows with a non-empty field cell
\* overwrites the inline header.
\* ------------------------------------------------------------------------
MetricHasTypeCell ==
  (RowStep /\ Emits) =>
    /\ Len(CurrentRow) >= 3
    /\ FieldValue # <<>>
    /\ ~StartsWith(FieldValue, <<"#">>)
    /\ TypeValue # <<>>
    /\ Emitted.type = TypeValue

NoTypeColumn == HeaderPosition(headers, sType) = {}

C24_NoTypeRowsOverwriteInlineHeader ==
  [][/\ MetricHasTypeCell
     /\ (RowStep /\ NoTypeColumn) =>
          /\ metrics' = metrics
          /\ FieldValue # <<>> => currentInlineHeader' = FieldValue]_vars

\* C24 as amended: in a table with no type column a row whose non-empty
\* field cell does not start with "#" overwrites the inline header, and a
\* row whose field cell starts with "#" leaves it as it is.
C24_NoTypeRowsWithoutHashOverwrite ==
  [][/\ MetricHasTypeCell
     /\ (RowStep /\ NoTypeColumn) =>
          /\ metrics' = metrics
          /\ FieldValue # <<>> =>
               currentInlineHeader' =
                 IF StartsWith(FieldValue, <<"#">>) THEN currentInlineHeader
                 ELSE FieldValue]_vars

\* A table with no type column gives no metric and leaves the field of its
\* last row as the inline header of the metric of the next table
C24_Witness ==
  /\ pc = "done"
  /\ lines = <<sXTable, lineHeaderNoType, lineSeparator, rowInlineHd, rowHashNd,
               rowMetricA, sFence>> \o UnclosedBlock(<<rowMetricA>>)
  /\ Len(metrics) = 1
  /\ metrics[1].type = <<"n">>
  /\ metrics[1].subcategory = sNameA

\* ------------------------------------------------------------------------
\* C25: the cleanName of parseDeprecationStatus holds no deprecation marker:
\* parsing it again gives status active and the same name, also for a field
\* name that holds a marker more than once or holds both markers.
\* ------------------------------------------------------------------------
C25_CleanNameIsClean ==
  pc = "returned" =>
    parseDeprecationStatus(ret.cleanName) =
      [cleanName |-> ret.cleanName, status |-> "active"]

\* ------------------------------------------------------------------------
\* C26: processDocsWithConcurrency resolves only after every node has been
\* started and every started task has settled.
\* ------------------------------------------------------------------------
C26_ResolvesAfterAllSettled ==
  poolPc = "resolved" => \A t \in DOMAIN taskState : Settled(t)

\* ------------------------------------------------------------------------
\* C27: if initialization can resolve a vector store id, from the config
\* file or by the name of the store, no search fails with "Vector store not
\* configured", whenever it is called after the initialize() of module
\* load has started, also while that one still awaits the config.
\* ------------------------------------------------------------------------
CanResolveStoreId ==
  /\ environment.apiKey
  /\ environment.configId \/ (environment.namedStore /\ ~environment.listFails)

C27_SearchFindsStoreConfigured ==
  CanResolveStoreId =>
    \A k \in 1..Len(toolResults) :
      toolResults[k].call.name = "search" =>
        toolResults[k].outcome # Thrown(sNotConfigured)

\* ------------------------------------------------------------------------
\* C29: the execute handlers of search, fetch and vector_store_status never
\* reject: when the service method fails they return a JSON string with an
\* error field, with empty results for search, with the title "Error" and
\* an empty url for fetch, and with configured false for the status.
\* ------------------------------------------------------------------------
C29_HandlersNeverReject ==
  \A k \in 1..Len(toolResults) :
    LET entry == toolResults[k]
    IN  /\ DOMAIN entry.result = {"returned"}
        /\ ~entry.outcome.ok =>
             LET json == entry.result.returned
             IN  /\ "error" \in DOMAIN json
                 /\ json.error = entry.outcome.message
                 /\ entry.call.name = "search" => json.results = <<>>
                 /\ entry.call.name = "fetch" =>
                      (json.title = "Error" /\ json.url = "" /\ json.id = entry.call.id)
                 /\ entry.call.name = "vector_store_status" =>
                      json.configured = FALSE

\* A search whose request failed and then a fetch whose request failed
C29_Witness ==
  /\ Len(toolResults) = 2
  /\ toolResults[1].call.name = "search"
  /\ toolResults[1].outcome = Thrown(sSearchFailed)
  /\ toolResults[2].call.name = "fetch"
  /\ toolResults[2].outcome = Thrown(sFetchFailed)
  /\ toolResults[2].result.returned.title = "Error"

\* ------------------------------------------------------------------------
\* C28: fetchDocContent never rejects: on a network failure, an unparsable
\* response or a non-zero API code it returns a placeholder with code 0
\* whose title and content describe the error, so processDocNode still
\* writes a file for the node and goes on to its children and siblings, and
\* a failed document never aborts downloadDocs.
\* ------------------------------------------------------------------------

\* The MARKDOWN nodes among the first n nodes, in pre-order
MarkdownDocsUpTo(n) ==
  SelectSeq([k \in 1..n |-> k], LAMBDA k : docTree[k].type = "MARKDOWN")

SavedDocIds == [k \in 1..Len(savedFiles) |-> savedFiles[k].doc_id]

C28_FailedDocumentIsWrittenAsPlaceholder ==
  [][/\ downloadPc = "fetch" =>
          /\ downloadPc' = "write"
          /\ docContent'.code = 0
          /\ docTree[docIndex].response # "ok" =>
               /\ docContent'.data.title = <<"Error loading doc", docIndex>>
               /\ docContent'.data.content =
                    <<"Failed to load content", ErrorOf(docTree[docIndex].response)>>
     /\ (downloadPc = "write" /\ downloadPc' # "failed") =>
          /\ savedFiles' = Append(savedFiles,
                                  [doc_id |-> docIndex,
                                   title |-> docContent.data.title,
                                   content |-> docContent.data.content])
          /\ downloadPc' = IF docIndex < Len(docTree) THEN "node" ELSE "readme"
     /\ downloadPc' = "node" => SavedDocIds' = MarkdownDocsUpTo(docIndex' - 1)
     /\ downloadPc' \in {"readme", "done"} =>
          SavedDocIds' = MarkdownDocsUpTo(Len(docTree))]_vars

\* The download is complete for a tree whose first document met a network
\* failure and has a child and a sibling with documents of their own
C28_Witness ==
  /\ downloadPc = "done"
  /\ Len(docTree) = 3
  /\ docTree[1].response = "network"
  /\ docTree[2].depth = 1
  /\ docTree[2].response = "apiCode"
  /\ docTree[3].depth = 0
  /\ docTree[3].response = "ok"
  /\ Len(savedFiles) = 3
  /\ savedFiles[1].title = <<"Error loading doc", 1>>
  /\ savedFiles[3].title = <<"Title of doc", 3>>

\* ------------------------------------------------------------------------
\* C30: processMarkdownContent terminates on every finite input: the scan
\* position goes up by one on each step of the outer loop and of the inner
\* loop that collects a table block, never goes down and never passes the
\* line after the last, also for a block that is never closed and for a
\* closing fence on the last line; the function returns.
\* ------------------------------------------------------------------------
PositionAdvances ==
  /\ i' >= i
  /\ i' <= Len(lines) + 1
  /\ (pc = "scan" /\ pc' # "done") => i' = i + 1
  /\ (pc = "collect" /\ pc' = "collect") => i' = i + 1
  /\ (pc \in {"collect", "rows"} /\ pc' = "scan") => i' = i + 1

C30_WalkerTerminates == [][PositionAdvances]_vars /\ <>(pc = "done")

\* Returned from a document that ends inside a block that is never closed,
\* after a block whose closing fence is followed by that block
C30_Witness ==
  /\ pc = "done"
  /\ lines = <<sXTable, lineShortHeader, lineShortSeparator, lineShortRow, sFence,
               sXTable, lineShortHeader, lineShortSeparator, lineShortRow>>
  /\ i = Len(lines) + 1

====
